---- MODULE Spec2Model ----
(***************************************************************************)
(* A model of the mxml DOM (node.hpp / node.cxx / document.cxx), of the    *)
(* DTD content-model validator (doctype.cpp), of the pure functions of     *)
(* element (equals, str, namespace_for_prefix), of the XPath parser and    *)
(* evaluator (xpath.cxx), of element::set_content and of fix_namespaces.   *)
(*                                                                         *)
(* Part 1 models the intrusive sibling lists at pointer level: every node  *)
(* object has the fields m_parent, m_next, m_prev of class node, every     *)
(* container owns a sentinel header node (basic_node_list::m_header_node)  *)
(* and every element a second header for its attribute_set.                *)
(*                                                                         *)
(* Build assumption: NDEBUG.  The assert() lines of the source are debug   *)
(* aids that duplicate the run-time checks which follow them; the model    *)
(* follows the run-time checks.                                            *)
(***************************************************************************)
EXTENDS Integers, Sequences, FiniteSets, TLC

VARIABLES
    type,      \* node::type() of every object ("free" = not allocated)
    tag,       \* the qname of an element or attribute, drawn from 1..MaxTag,
               \* or the text of a text node (0 = no text, t = the digit t)
    m_parent,  \* node::m_parent
    m_next,    \* node::m_next
    m_prev,    \* node::m_prev
    exc,       \* what() of the mxml::exception the last operation threw, or ""
    content,   \* the content spec a validator was built for
    m_state,   \* validator::m_state, the tree of state objects
    m_done,    \* validator::m_done
    fed,       \* the names passed to validator::allow so far
    accepted,  \* TRUE iff every call of validator::allow returned true
    ea,        \* an element, as a value: the receiver of equals / str
    eb,        \* the element ea is compared with
    returned,  \* what the member function called last returned, <<>> before
    chain,     \* the attribute lists of an element d and of its ancestors
    ctxt,      \* context_imp::m_variables of the context handed to evaluate
    path,      \* the text an xpath is constructed from
    m_path,    \* xpath_imp::m_path, the text preprocess leaves
    m_cur,     \* document::m_cur, the insertion point of the DOM builder
    m_cdata,   \* document::m_cdata, the CDATA node that is open, or nullptr
    m_preserve_cdata,  \* document::m_preserve_cdata
    m_notations,       \* document::m_notations
    m_root_size_at_first_notation,  \* the member of document of that name
    events     \* the events the parser has sent to the handlers so far

domVars == <<type, tag, m_parent, m_next, m_prev, exc>>
validatorVars == <<content, m_state, m_done, fed, accepted>>
valueVars == <<ea, eb, returned, ctxt, path, m_path>>
builderVars == <<m_cur, m_cdata, m_preserve_cdata, m_notations,
                 m_root_size_at_first_notation, events>>
vars == <<domVars, validatorVars, valueVars, chain, builderVars>>

-----------------------------------------------------------------------------
(* Bounds and the address space                                            *)

MaxNodes == 3      \* heap objects that can be allocated with new
MaxTag == 2        \* distinct non-empty qnames
MaxDepth == 2      \* nesting depth of the content specs
MaxFed == 3        \* names passed to one validator
MaxAttrs == 2      \* attributes of one element
MaxKids == 2       \* child nodes of one element
MaxPairKids == 1   \* child nodes of an element compared with every other
MaxChain == 3      \* an element with its ancestors

NULL == 0 - 1      \* nullptr

NoException == ""
AddMessage == "attempt to add a node that already has a parent or siblings"
RemoveMessage == "attempt to remove node whose parent is invalid"
DocumentMessage == "Only one child element is allowed in a document"

Pool == 1..MaxNodes               \* objects created by new / on the stack
DOC == MaxNodes + 1               \* the one mxml::document
TMP == MaxNodes + 2               \* the by-value parameter of operator=(element e)
Obj == 1..(MaxNodes + 2)
Hdr(c) == (MaxNodes + 2) + c      \* &c.m_header_node of element_container c
AHdr(c) == 2 * (MaxNodes + 2) + c \* &c.m_attributes.m_header_node
Headers == {Hdr(c) : c \in Obj} \cup {AHdr(c) : c \in Obj}
Addr == Obj \cup Headers
Tags == 1..MaxTag                 \* tag 0 stands for the empty qname

\* The fields of all objects as one value, so that the member functions can be
\* written as operators from store to store.
Store == [type |-> type, tag |-> tag, parent |-> m_parent,
          next |-> m_next, prev |-> m_prev]

SetStore(s) ==
    /\ type' = s.type
    /\ tag' = s.tag
    /\ m_parent' = s.parent
    /\ m_next' = s.next
    /\ m_prev' = s.prev
    /\ UNCHANGED <<validatorVars, valueVars, chain, builderVars>>

-----------------------------------------------------------------------------
(* class node                                                              *)

\* node::init()
init(s, n) == [s EXCEPT !.next[n] = n, !.prev[n] = n]

\* swap(node &a, node &b) without the two lines that point the neighbours
\* of the headers back at them
swap_node_no_fixup(s, a, b) ==
    IF s.next[a] = a
    THEN IF s.next[b] # b
         THEN init([s EXCEPT !.next[a] = s.next[b], !.prev[a] = s.prev[b]], b)
         ELSE s
    ELSE IF s.next[b] = b
         THEN init([s EXCEPT !.next[b] = s.next[a], !.prev[b] = s.prev[a]], a)
         ELSE [s EXCEPT !.next[a] = s.next[b], !.next[b] = s.next[a],
                        !.prev[a] = s.prev[b], !.prev[b] = s.prev[a]]

\* swap(node &a, node &b): exchanges the rings hanging on two headers
swap_node(s, a, b) ==
    LET \* x.m_prev->m_next = &x;  and  x.m_next->m_prev = &x;
        prev_next(st, x) == [st EXCEPT !.next[st.prev[x]] = x]
        next_prev(st, x) == [st EXCEPT !.prev[st.next[x]] = x]
        exchange(st) ==
            IF st.next[a] = a
            THEN IF st.next[b] # b
                 THEN init([st EXCEPT !.next[a] = st.next[b],
                                      !.prev[a] = st.prev[b]], b)
                 ELSE st
            ELSE IF st.next[b] = b
                 THEN init([st EXCEPT !.next[b] = st.next[a],
                                      !.prev[b] = st.prev[a]], a)
                 ELSE [st EXCEPT !.next[a] = st.next[b], !.next[b] = st.next[a],
                                 !.prev[a] = st.prev[b], !.prev[b] = st.prev[a]]
    IN next_prev(prev_next(next_prev(prev_next(exchange(s), a), a), b), b)

\* The nodes met by following m_next from n until the header h comes back,
\* as the loops "for (n = h->m_next; n != h; n = n->m_next)" meet them.  The
\* fuel stops the walk on a ring that does not close.
RECURSIVE Walk(_, _, _, _)
Walk(s, h, n, fuel) ==
    IF n = h THEN <<>>
    ELSE IF fuel = 0 \/ n = NULL THEN <<NULL>>
    ELSE <<n>> \o Walk(s, h, s.next[n], fuel - 1)

ListSeq(s, h) == Walk(s, h, s.next[h], Cardinality(Addr))

Range(q) == {q[i] : i \in 1..Len(q)}

-----------------------------------------------------------------------------
(* class basic_node_list                                                   *)

\* Sets the parent of every node of seq to p, one after the other.
RECURSIVE SetParents(_, _, _)
SetParents(s, seq, p) ==
    IF seq = <<>> THEN s
    ELSE SetParents([s EXCEPT !.parent[Head(seq)] = p], Tail(seq), p)

\* swap(node_list_header &a, node_list_header &b) without the two loops that
\* set the parent of the nodes
swap_header_no_reparent(s, a, b) == swap_node(s, a, b)

\* swap(node_list_header &a, node_list_header &b)
swap_header(s, a, b) ==
    LET reparent(st, h) == SetParents(st, ListSeq(st, h), st.parent[h])
    IN reparent(reparent(swap_node(s, a, b), a), b)

\* insert_impl without the test that n is an orphan
insert_impl_unchecked(s, h, p, n) ==
    LET set_parent(st) == [st EXCEPT !.parent[n] = st.parent[h]]
        set_prev(st) == [st EXCEPT !.prev[n] = st.prev[p]]
        prev_next(st) == [st EXCEPT !.next[st.prev[n]] = n]
        set_next(st) == [st EXCEPT !.next[n] = p]
        next_prev(st) == [st EXCEPT !.prev[st.next[n]] = n]
    IN [s |-> next_prev(set_next(prev_next(set_prev(set_parent(s))))),
        exc |-> NoException]

\* basic_node_list::insert_impl(p, n) on the list whose m_header is h.
\* The result is the new store and whether mxml::exception was thrown.
insert_impl(s, h, p, n) ==
    IF s.parent[n] # NULL \/ s.next[n] # n \/ s.prev[n] # n
    THEN [s |-> s, exc |-> AddMessage]
    ELSE LET set_parent(st) == [st EXCEPT !.parent[n] = st.parent[h]]
             set_prev(st) == [st EXCEPT !.prev[n] = st.prev[p]]
             prev_next(st) == [st EXCEPT !.next[st.prev[n]] = n]
             set_next(st) == [st EXCEPT !.next[n] = p]
             next_prev(st) == [st EXCEPT !.prev[st.next[n]] = n]
         IN [s |-> next_prev(set_next(prev_next(set_prev(set_parent(s))))),
             exc |-> NoException]

\* operator delete after the destructor: the object is no longer allocated.
Free(s, n) ==
    [s EXCEPT !.type[n] = "free", !.tag[n] = 0, !.parent[n] = NULL,
              !.next[n] = NULL, !.prev[n] = NULL]

\* node_list<element>::empty() of container c: it has no child of type element
empty(s, c) == \A n \in Range(ListSeq(s, Hdr(c))) : s.type[n] # "element"

RECURSIVE clear_loop(_, _)
RECURSIVE delete_node(_, _)
RECURSIVE delete_all(_, _)

\* basic_node_list::clear(): the loop over the explicit stack of lists.  The
\* list on top is left alone while it holds a non-empty element, whose list is
\* pushed; otherwise it is popped, its nodes are deleted and its header reset.
clear_loop(s, stack) ==
    IF stack = <<>> THEN s
    ELSE LET nl == Head(stack)
             kids == ListSeq(s, nl)
             cand == {i \in 1..Len(kids) :
                        s.type[kids[i]] = "element" /\ ~empty(s, kids[i])}
         IN IF cand # {}
            THEN LET i == CHOOSE j \in cand : \A k \in cand : j <= k
                 IN clear_loop(s, <<Hdr(kids[i])>> \o stack)
            ELSE clear_loop(init(delete_all(s, kids), nl), Tail(stack))

clear(s, h) == clear_loop(s, <<h>>)

\* delete n: ~element destroys m_attributes (attribute_set::~attribute_set
\* calls clear()), then ~element_container calls clear(); then the memory
\* is released.
delete_node(s, n) ==
    IF s.type[n] = "element"
    THEN Free(clear(clear(s, AHdr(n)), Hdr(n)), n)
    ELSE Free(s, n)

delete_all(s, seq) ==
    IF seq = <<>> THEN s
    ELSE delete_all(delete_node(s, Head(seq)), Tail(seq))

\* erase_impl without the test of the parent of n
erase_impl_unchecked(s, h, n) ==
    IF n = h THEN [s |-> s, exc |-> NoException]
    ELSE LET next_prev(st) == [st EXCEPT !.prev[st.next[n]] = st.prev[n]]
             prev_next(st) == [st EXCEPT !.next[st.prev[n]] = st.next[n]]
             cut(st) == [st EXCEPT !.next[n] = NULL, !.prev[n] = NULL,
                                   !.parent[n] = NULL]
         IN [s |-> delete_node(cut(prev_next(next_prev(s))), n),
             exc |-> NoException]

\* basic_node_list::erase_impl(n) on the list whose m_header is h
erase_impl(s, h, n) ==
    IF n = h THEN [s |-> s, exc |-> NoException]
    ELSE IF s.parent[n] # s.parent[h] THEN [s |-> s, exc |-> RemoveMessage]
    ELSE LET next_prev(st) == [st EXCEPT !.prev[st.next[n]] = st.prev[n]]
             prev_next(st) == [st EXCEPT !.next[st.prev[n]] = st.next[n]]
             cut(st) == [st EXCEPT !.next[n] = NULL, !.prev[n] = NULL,
                                   !.parent[n] = NULL]
         IN [s |-> delete_node(cut(prev_next(next_prev(s))), n),
             exc |-> NoException]

-----------------------------------------------------------------------------
(* class node_list<T>, element_container, element, attribute_set           *)

Allocated(s) == {n \in Pool : s.type[n] # "free"}
Containers(s) == {c \in Pool \cup {DOC} : s.type[c] \in {"element", "document"}}
Elements(s) == {c \in Pool : s.type[c] = "element"}

HasFree(s, k) == Cardinality(Pool \ Allocated(s)) >= k
Fresh(s) == CHOOSE n \in Pool \ Allocated(s) : \A m \in Pool \ Allocated(s) : n <= m

\* new T(...): the constructor of node runs init() and leaves m_parent null;
\* the lists of a new element are empty.
New(s, n, k, t) == init([s EXCEPT !.type[n] = k, !.tag[n] = t, !.parent[n] = NULL], n)

\* The iterators of the list of container c, end() included
Pos(s, c) == Range(ListSeq(s, Hdr(c))) \cup {Hdr(c)}

\* The containers from c up to its root: c, c->parent(), ...
RECURSIVE AncOrSelf(_, _, _)
AncOrSelf(s, c, fuel) ==
    IF c = NULL \/ fuel = 0 THEN {}
    ELSE {c} \cup AncOrSelf(s, s.parent[c], fuel - 1)

Ancestors(s, c) == AncOrSelf(s, c, MaxNodes + 2)

\* document::insert_impl(p, n), the override of basic_node_list::insert_impl:
\* it refuses when the document has a child element.
document_insert_impl(s, p, n) ==
    IF ~empty(s, DOC) THEN [s |-> s, exc |-> DocumentMessage]
    ELSE insert_impl(s, Hdr(DOC), p, n)

\* node_list<T>::insert_impl(const_iterator pos, node *n): the body is the
\* qualified call basic_node_list::insert_impl(&*pos, n), which is bound
\* statically, so no override takes part, whatever the container is.
node_list_insert_impl(s, c, p, n) == insert_impl(s, Hdr(c), p, n)

\* node_list<T>::erase_impl(iterator pos)
node_list_erase_impl(s, c, n) == erase_impl(s, Hdr(c), n)

\* swap(element &a, element &b): the child lists, the qnames and the
\* attribute sets change places; the nodes a and b stay where they are.
swap_element(s, a, b) ==
    LET swap_qname(st) == [st EXCEPT !.tag[a] = st.tag[b], !.tag[b] = st.tag[a]]
    IN swap_header(swap_qname(swap_header(s, Hdr(a), Hdr(b))), AHdr(a), AHdr(b))

\* element(element &&e): a default element n, then swap(*this, e)
element_move(s, n, src) == swap_element(New(s, n, "element", 0), n, src)

\* The number of objects of the subtree of n, attributes included
RECURSIVE Size(_, _)
RECURSIVE SizeAll(_, _)
Size(s, n) ==
    IF s.type[n] = "element"
    THEN 1 + SizeAll(s, ListSeq(s, Hdr(n))) + SizeAll(s, ListSeq(s, AHdr(n)))
    ELSE 1
SizeAll(s, seq) ==
    IF seq = <<>> THEN 0 ELSE Size(s, Head(seq)) + SizeAll(s, Tail(seq))

RECURSIVE copy_node(_, _, _)
RECURSIVE copy_list(_, _, _)

\* The copy constructors: element(const element &e) copies the children
\* (element_container's copy constructor, through assign), the qname and the
\* attributes; the other nodes copy their payload.  dst is the new object.
copy_node(s, src, dst) ==
    IF s.type[src] = "element"
    THEN LET copy_qname(st) == [st EXCEPT !.tag[dst] = s.tag[src]]
         IN copy_list(copy_qname(copy_list(New(s, dst, "element", 0),
                                           ListSeq(s, Hdr(src)), Hdr(dst))),
                      ListSeq(s, AHdr(src)), AHdr(dst))
    ELSE New(s, dst, s.type[src], s.tag[src])

\* node_list<T>::insert(pos, first, last) with pos = end(): a copy of every
\* node of seq is inserted before the header h, in order.
copy_list(s, seq, h) ==
    IF seq = <<>> THEN s
    ELSE copy_list(insert_impl(copy_node(s, Head(seq), Fresh(s)), h, h, Fresh(s)).s,
                   Tail(seq), h)

\* element::operator=(element e): the argument is taken by value (TMP, built
\* by the move or the copy constructor), swapped with *this and destroyed on
\* return.
element_assign(s, dst, src, move) ==
    delete_node(swap_element(IF move THEN element_move(s, TMP, src)
                                     ELSE copy_node(s, src, TMP),
                             dst, TMP), TMP)

\* The orders std::sort can leave the vector of the nodes of seq in: the
\* predicate is the caller's, so every order of the same nodes is the sorted
\* order of some predicate.
Orders(seq) ==
    {q \in [1..Len(seq) -> Range(seq)] : Range(q) = Range(seq)}

\* The loop of node_list<T>::sort that links the sorted vector t behind p
RECURSIVE relink(_, _, _, _)
relink(s, h, p, t) ==
    IF t = <<>>
    THEN [s EXCEPT !.next[p] = h, !.prev[h] = p]
    ELSE relink([s EXCEPT !.prev[Head(t)] = p, !.next[p] = Head(t)],
                h, Head(t), Tail(t))

\* node_list<T>::sort(pred), after std::sort has produced t
sort(s, h, t) == relink(s, h, h, t)

\* attribute_set::find(key)
find_attribute(s, e, t) ==
    LET as == ListSeq(s, AHdr(e))
        hit == {i \in 1..Len(as) : s.tag[as[i]] = t}
    IN IF hit = {} THEN AHdr(e)
       ELSE as[CHOOSE i \in hit : \A j \in hit : i <= j]

\* begin() of the list of c: the iterator constructor skips to the first
\* element when the list is seen as node_list<element>
begin(s, c, view) ==
    LET kids == ListSeq(s, Hdr(c))
        hit == {i \in 1..Len(kids) : view = "node" \/ s.type[kids[i]] = "element"}
    IN IF hit = {} THEN Hdr(c)
       ELSE kids[CHOOSE i \in hit : \A j \in hit : i <= j]

\* std::prev(end()): operator-- walks back to the last element, or to the
\* header, when the list is seen as node_list<element>
prev_end(s, c, view) ==
    LET kids == ListSeq(s, Hdr(c))
        hit == {i \in 1..Len(kids) : view = "node" \/ s.type[kids[i]] = "element"}
    IN IF hit = {} THEN Hdr(c)
       ELSE kids[CHOOSE i \in hit : \A j \in hit : i >= j]

-----------------------------------------------------------------------------
(* The operations of the DOM, one action each                              *)

\* No validator exists
NoValidator ==
    /\ content = <<>> /\ m_state = <<>> /\ m_done = FALSE
    /\ fed = <<>> /\ accepted = FALSE

\* document::document(): an empty document, nothing else allocated
EmptyDocument ==
    /\ type = [n \in Addr |-> IF n = DOC THEN "document"
                              ELSE IF n \in Headers THEN "header" ELSE "free"]
    /\ tag = [n \in Addr |-> 0]
    /\ m_parent = [n \in Addr |->
                     IF n \in Headers
                     THEN CHOOSE c \in Obj : n = Hdr(c) \/ n = AHdr(c)
                     ELSE NULL]
    /\ m_next = [n \in Addr |-> IF n \in Headers THEN n ELSE NULL]
    /\ m_prev = [n \in Addr |-> IF n \in Headers THEN n ELSE NULL]
    /\ exc = NoException

\* No xpath is under study
NoXPath == ctxt = <<>> /\ path = <<>> /\ m_path = <<>>

\* No document is being parsed: m_cur and m_cdata are what the constructor
\* of document leaves
NoBuilder ==
    /\ m_cur = NULL
    /\ m_cdata = NULL
    /\ m_preserve_cdata = FALSE
    /\ m_notations = <<>>
    /\ m_root_size_at_first_notation = 0
    /\ events = <<>>

\* No element value is under study
NoValues ==
    /\ ea = <<>> /\ eb = <<>> /\ returned = <<>> /\ chain = <<>>
    /\ NoXPath /\ NoBuilder

DomInit == EmptyDocument /\ NoValidator /\ NoValues

Finish(r) == SetStore(r.s) /\ exc' = r.exc
NoThrow(s) == SetStore(s) /\ exc' = NoException

\* c.emplace(p, qname), emplace_back, emplace_front, document::emplace, and
\* c.nodes().emplace(p, text): a new node is built and handed to insert_impl
Emplace(c, p, k, t) ==
    /\ c \in Containers(Store) /\ p \in Pos(Store, c)
    /\ HasFree(Store, 1)
    /\ LET n == Fresh(Store)
       IN Finish(node_list_insert_impl(New(Store, n, k, t), c, p, n))

\* c.insert(p, src), push_back(src), push_front(src) with src a const
\* reference: the copy is built first, then inserted
InsertCopy(c, p, src) ==
    /\ c \in Containers(Store) /\ p \in Pos(Store, c)
    /\ src \in Allocated(Store) /\ Store.type[src] \in {"element", "text"}
    /\ HasFree(Store, Size(Store, src))
    /\ LET n == Fresh(Store)
       IN Finish(node_list_insert_impl(copy_node(Store, src, n), c, p, n))

\* c.insert(p, std::move(src)): new element(std::move(src)) is a default
\* element swapped with src.  src is no ancestor of c and not c itself.
InsertMove(c, p, src) ==
    /\ c \in Containers(Store) /\ p \in Pos(Store, c)
    /\ src \in Elements(Store) /\ src \notin Ancestors(Store, c)
    /\ HasFree(Store, 1)
    /\ LET n == Fresh(Store)
       IN Finish(node_list_insert_impl(element_move(Store, n, src), c, p, n))

\* element n(src): copy construction of an element that stands alone
CopyConstruct(src) ==
    /\ src \in Elements(Store)
    /\ HasFree(Store, Size(Store, src))
    /\ NoThrow(copy_node(Store, src, Fresh(Store)))

\* element n(std::move(src))
MoveConstruct(src) ==
    /\ src \in Elements(Store)
    /\ HasFree(Store, 1)
    /\ NoThrow(element_move(Store, Fresh(Store), src))

\* dst = src and dst = std::move(src).  For the move, src is no proper
\* ancestor of dst.
CanAssign(dst, src, move) ==
    /\ dst \in Elements(Store) /\ src \in Elements(Store)
    /\ move => src \notin (Ancestors(Store, dst) \ {dst})
    /\ ~move => HasFree(Store, Size(Store, src) - 1)

Assign(dst, src, move) ==
    /\ CanAssign(dst, src, move)
    /\ NoThrow(element_assign(Store, dst, src, move))

\* swap(a, b) of two elements neither of which contains the other
Swap(a, b) ==
    /\ a \in Elements(Store) /\ b \in Elements(Store)
    /\ a \notin Ancestors(Store, b) \ {b}
    /\ b \notin Ancestors(Store, a) \ {a}
    /\ NoThrow(swap_element(Store, a, b))

\* c.erase(pos) and c.nodes().erase(pos) with pos an iterator to any live
\* node or an end() iterator of any list but the attribute set of c itself
CanErase(c, n) ==
    /\ c \in Containers(Store)
    /\ \/ n \in Allocated(Store)
       \/ \E d \in Containers(Store) : n = Hdr(d)
       \/ \E d \in Elements(Store) \ {c} : n = AHdr(d)

Erase(c, n) ==
    /\ CanErase(c, n)
    /\ Finish(node_list_erase_impl(Store, c, n))

\* c.pop_front() and c.nodes().pop_front()
PopFront(c, view) ==
    /\ c \in Containers(Store)
    /\ Finish(node_list_erase_impl(Store, c, begin(Store, c, view)))

\* c.pop_back() and c.nodes().pop_back()
PopBack(c, view) ==
    /\ c \in Containers(Store)
    /\ Finish(node_list_erase_impl(Store, c, prev_end(Store, c, view)))

\* c.clear()
Clear(c) ==
    /\ c \in Containers(Store)
    /\ NoThrow(clear(Store, Hdr(c)))

\* c.nodes().sort(pred) and c.attributes().sort(pred)
Sort(c, attrs) ==
    /\ c \in Containers(Store)
    /\ attrs => c \in Elements(Store)
    /\ LET h == IF attrs THEN AHdr(c) ELSE Hdr(c)
       IN \E t \in Orders(ListSeq(Store, h)) : NoThrow(sort(Store, h, t))

\* The destructor of a node that stands alone
Destroy(n) ==
    /\ n \in Allocated(Store) /\ m_parent[n] = NULL
    /\ NoThrow(delete_node(Store, n))

\* insert_impl handed a node that exists already.  A node that could be
\* linked is not an ancestor of c nor c itself.
CanInsertExisting(c, p, n) ==
    /\ c \in Containers(Store) /\ p \in Pos(Store, c)
    /\ n \in Allocated(Store) /\ n \notin Ancestors(Store, c)

InsertExisting(c, p, n) ==
    /\ CanInsertExisting(c, p, n)
    /\ Finish(node_list_insert_impl(Store, c, p, n))

\* e.attributes().emplace(qname, value): the attribute of that name is
\* assigned to, or a new one is appended
SetAttribute(e, t) ==
    /\ e \in Elements(Store)
    /\ LET i == find_attribute(Store, e, t)
       IN IF i # AHdr(e)
          THEN NoThrow(Store)
          ELSE /\ HasFree(Store, 1)
               /\ LET n == Fresh(Store)
                  IN Finish(insert_impl(New(Store, n, "attribute", t), AHdr(e), AHdr(e), n))

\* e.attributes().erase(key)
EraseAttribute(e, t) ==
    /\ e \in Elements(Store)
    /\ LET i == find_attribute(Store, e, t)
       IN IF i # AHdr(e)
          THEN Finish(erase_impl(Store, AHdr(e), i))
          ELSE NoThrow(Store)

Views == {"element", "node"}

DomNext ==
    \/ \E c \in Obj, p \in Addr, t \in Tags : Emplace(c, p, "element", t)
    \/ \E c \in Obj, p \in Addr : Emplace(c, p, "text", 0)
    \/ \E c \in Obj, p \in Addr, src \in Pool : InsertCopy(c, p, src)
    \/ \E c \in Obj, p \in Addr, src \in Pool : InsertMove(c, p, src)
    \/ \E src \in Pool : CopyConstruct(src)
    \/ \E src \in Pool : MoveConstruct(src)
    \/ \E dst \in Pool, src \in Pool, move \in BOOLEAN : Assign(dst, src, move)
    \/ \E a \in Pool, b \in Pool : Swap(a, b)
    \/ \E c \in Obj, n \in Addr : Erase(c, n)
    \/ \E c \in Obj, v \in Views : PopFront(c, v)
    \/ \E c \in Obj, v \in Views : PopBack(c, v)
    \/ \E c \in Obj : Clear(c)
    \/ \E c \in Obj, attrs \in BOOLEAN : Sort(c, attrs)
    \/ \E n \in Pool : Destroy(n)
    \/ \E c \in Obj, p \in Addr, n \in Pool : InsertExisting(c, p, n)
    \/ \E e \in Pool, t \in Tags : SetAttribute(e, t)
    \/ \E e \in Pool, t \in Tags : EraseAttribute(e, t)

Spec == DomInit /\ [][DomNext]_vars

-----------------------------------------------------------------------------
(* Properties of the DOM                                                   *)

Children(c) == ListSeq(Store, Hdr(c))
NoDuplicates(q) == \A i, j \in 1..Len(q) : q[i] = q[j] => i = j

\* The ring of header h closes, holds no node twice, and next and prev are
\* inverse of each other at every node of it, the header included
WellFormedList(h) ==
    LET q == ListSeq(Store, h)
    IN /\ NULL \notin Range(q)
       /\ NoDuplicates(q)
       /\ \A n \in Range(q) \cup {h} :
             /\ m_next[n] # NULL /\ m_prev[n] # NULL
             /\ m_prev[m_next[n]] = n
             /\ m_next[m_prev[n]] = n

\* C1: after any sequence of child-list operations the sibling list of every
\* container is a well-formed circular doubly-linked list anchored at its
\* header: n.next.prev = n and n.prev.next = n for every node on it, the
\* header included, and following next from the header comes back to the
\* header after meeting every child (every live node, attributes aside,
\* whose parent is the container) exactly once.
C1_SiblingListWellFormed ==
    \A c \in Containers(Store) :
        /\ WellFormedList(Hdr(c))
        /\ \A n \in Allocated(Store) :
              (m_parent[n] = c /\ type[n] # "attribute") => n \in Range(Children(c))

\* A container with two children on its list, next to an element emptied by
\* a move (only a moved-from element has the empty qname)
C1_Witness ==
    /\ \E c \in Containers(Store) : Len(Children(c)) >= 2
    /\ \E e \in Elements(Store) : tag[e] = 0 /\ Children(e) = <<>>

\* What n3(std::move(n2)) and n4 = std::move(n3), with n4 another object than
\* n3, do to the store s1 when run in this state: the destination holds the
\* former children of the source in their order, each with the destination
\* as parent, and the source is empty
Handed(s1, dst, src) ==
    /\ ListSeq(s1, Hdr(dst)) = Children(src)
    /\ \A k \in Range(Children(src)) : s1.parent[k] = dst
    /\ ListSeq(s1, Hdr(src)) = <<>>

MoveKeepsChildren ==
    /\ \A src \in Elements(Store) :
          HasFree(Store, 1) =>
             Handed(element_move(Store, Fresh(Store), src), Fresh(Store), src)
    /\ \A dst \in Pool, src \in Pool :
          (CanAssign(dst, src, TRUE) /\ dst # src) =>
             Handed(element_assign(Store, dst, src, TRUE), dst, src)

ChildrenHaveParent ==
    \A c \in Containers(Store) : \A n \in Range(Children(c)) : m_parent[n] = c

\* C2: after any sequence of insert/emplace, erase, copy construction, move
\* construction, move assignment and swap, every node linked in the child
\* list of a container e has parent e; and a move construction or move
\* assignment hands the children of the source to the destination in their
\* order, with the destination as parent, leaving the source empty.
C2_ChildParent == ChildrenHaveParent /\ MoveKeepsChildren

\* An element that was moved from (empty qname, no children) next to an
\* element that holds two children
C2_Witness ==
    \E src \in Elements(Store), dst \in Elements(Store) :
        /\ tag[src] = 0 /\ Children(src) = <<>>
        /\ Len(Children(dst)) >= 2

\* C3: a document holds at most one child element, and an insertion that
\* would give it a second one raises mxml::exception and leaves the children
\* of the document unchanged.
C3_DocumentOneElement ==
    Cardinality({n \in Range(Children(DOC)) : type[n] = "element"}) <= 1

Orphan(n) == m_parent[n] = NULL /\ m_next[n] = n /\ m_prev[n] = n

NoNodeInTwoLists ==
    \A g, h \in Headers : \A n \in Range(ListSeq(Store, g)) :
        (g # h /\ type[m_parent[g]] # "free" /\ type[m_parent[h]] # "free")
            => n \notin Range(ListSeq(Store, h))

InsertRefusesLinkedNode ==
    \A c \in Obj, p \in Addr, n \in Pool :
        (CanInsertExisting(c, p, n) /\ ~Orphan(n)) =>
            node_list_insert_impl(Store, c, p, n) = [s |-> Store, exc |-> AddMessage]

C10_EraseNonChild ==
    \A c \in Obj, n \in Addr :
        (CanErase(c, n) /\ n \notin Range(Children(c))) =>
            node_list_erase_impl(Store, c, n) = [s |-> Store, exc |-> RemoveMessage]

\* C10 amended: erase with an iterator to a node whose parent is not the
\* container raises mxml::exception and leaves the whole tree unchanged.
C10_EraseForeignNode ==
    \A c \in Obj, n \in Addr :
        (CanErase(c, n) /\ m_parent[n] # c) =>
            node_list_erase_impl(Store, c, n) = [s |-> Store, exc |-> RemoveMessage]

\* The erase of a node was refused while a grandchild hangs in the tree
C10_Witness ==
    /\ exc = RemoveMessage
    /\ \E n \in Allocated(Store) :
          m_parent[n] \in Pool /\ m_parent[m_parent[n]] # NULL

-----------------------------------------------------------------------------
(* Part 2: the content-model validator of doctype.cpp                      *)
(*                                                                         *)
(* A state object is a record holding the members of its struct; the       *)
(* shared_ptr members m_sub / m_states hold the records of the sub-states, *)
(* state_seq::m_next and state_choice::m_sub are positions in m_states.    *)

Names == {"a", "b"}
Repetitions == {"?", "*", "+"}

\* The content specs (content_spec_element, content_spec_repeated,
\* content_spec_seq, content_spec_choice) nested at most d deep, sequences
\* and choices of two members
RECURSIVE ContentSpecs(_)
ContentSpecs(d) ==
    IF d = 0 THEN [k : {"element"}, m_name : Names]
    ELSE LET sub == ContentSpecs(d - 1)
         IN sub
            \cup [k : Repetitions, m_allowed : sub]
            \cup [k : {"seq", "choice"}, m_allowed : sub \X sub]

\* content_spec_*::create_state and the constructors of the state structs
RECURSIVE create_state(_)
create_state(cs) ==
    CASE cs.k = "element" -> [k |-> "element", m_name |-> cs.m_name, m_done |-> FALSE]
      [] cs.k \in Repetitions ->
            [k |-> cs.k, m_sub |-> create_state(cs.m_allowed), m_state |-> 0]
      [] cs.k = "seq" ->
            [k |-> "seq", m_state |-> 0, m_next |-> 0,
             m_states |-> [i \in 1..Len(cs.m_allowed) |-> create_state(cs.m_allowed[i])]]
      [] cs.k = "choice" ->
            [k |-> "choice", m_state |-> 0, m_sub |-> 0, m_mixed |-> FALSE,
             m_states |-> [i \in 1..Len(cs.m_allowed) |-> create_state(cs.m_allowed[i])]]

RECURSIVE reset(_)
\* Only the state object itself is put back, not the states it holds
reset_state_only(st) ==
    CASE st.k = "element" -> [st EXCEPT !.m_done = FALSE]
      [] OTHER -> [st EXCEPT !.m_state = 0]
\* state_*::reset
reset(st) ==
    CASE st.k = "element" -> [st EXCEPT !.m_done = FALSE]
      [] st.k \in Repetitions -> [st EXCEPT !.m_sub = reset(st.m_sub), !.m_state = 0]
      [] st.k \in {"seq", "choice"} ->
            [st EXCEPT !.m_state = 0,
                       !.m_states = [i \in 1..Len(st.m_states) |-> reset(st.m_states[i])]]

\* state_*::allow_empty
RECURSIVE allow_empty(_)
allow_empty(st) ==
    CASE st.k = "element" -> FALSE
      [] st.k \in {"?", "*"} -> TRUE
      [] st.k = "+" -> allow_empty(st.m_sub)
      [] st.k = "seq" -> \A i \in 1..Len(st.m_states) : allow_empty(st.m_states[i])
      [] st.k = "choice" ->
            st.m_mixed \/ \E i \in 1..Len(st.m_states) : allow_empty(st.m_states[i])

Tuple(result, done, st) == [result |-> result, done |-> done, st |-> st]

RECURSIVE allow(_, _)
RECURSIVE seq_while(_, _, _, _)
RECURSIVE choice_for(_, _, _, _, _)

\* state_repeated_zero_or_once / _any / _at_least_once ::allow.  r is what
\* m_sub->allow(name) returned; the branches that reset m_sub call it again.
repeated_allow(st, name, r) ==
    LET again == allow(reset(r.st), name)
        retry == ~r.result /\ r.done
    IN CASE st.k = "?" ->
              IF st.m_state = 0
              THEN IF r.result
                   THEN Tuple(TRUE, r.done, [st EXCEPT !.m_sub = r.st, !.m_state = 1])
                   ELSE Tuple(FALSE, TRUE, [st EXCEPT !.m_sub = r.st])
              ELSE Tuple(r.result, r.done, [st EXCEPT !.m_sub = r.st])
         [] st.k = "*" ->
              IF st.m_state = 0
              THEN IF r.result
                   THEN Tuple(TRUE, r.done, [st EXCEPT !.m_sub = r.st, !.m_state = 1])
                   ELSE Tuple(FALSE, TRUE, [st EXCEPT !.m_sub = r.st])
              ELSE IF retry
                   THEN Tuple(again.result, IF again.result THEN again.done ELSE TRUE,
                              [st EXCEPT !.m_sub = again.st])
                   ELSE Tuple(r.result, r.done, [st EXCEPT !.m_sub = r.st])
         [] st.k = "+" ->
              IF st.m_state = 0
              THEN Tuple(r.result, r.done,
                         [st EXCEPT !.m_sub = r.st,
                                    !.m_state = IF r.result THEN 1 ELSE 0])
              ELSE IF ~retry
                   THEN Tuple(r.result, r.done, [st EXCEPT !.m_sub = r.st])
                   ELSE IF st.m_state = 1
                        THEN Tuple(again.result, again.done,
                                   [st EXCEPT !.m_sub = again.st,
                                              !.m_state = IF again.result THEN 2 ELSE 1])
                        ELSE Tuple(again.result,
                                   IF again.result THEN again.done ELSE TRUE,
                                   [st EXCEPT !.m_sub = again.st])

\* The while loop of state_seq::allow, entered with the outcome of
\* (*m_next)->allow(name)
seq_while(st, name, result, done) ==
    IF ~(~result /\ done) THEN Tuple(result, done, st)
    ELSE IF st.m_next + 1 > Len(st.m_states)
         THEN Tuple(result, TRUE, [st EXCEPT !.m_next = @ + 1])
         ELSE LET r == allow(st.m_states[st.m_next + 1], name)
              IN seq_while([st EXCEPT !.m_next = @ + 1,
                                      !.m_states[st.m_next + 1] = r.st],
                           name, r.result, r.done)

\* The for loop of state_choice::allow in state Start, at choice i
choice_for(st, name, i, result, done) ==
    IF i > Len(st.m_states) THEN Tuple(result, done, st)
    ELSE LET r == allow(st.m_states[i], name)
         IN IF r.result
            THEN Tuple(TRUE, r.done,
                       [st EXCEPT !.m_states[i] = r.st, !.m_sub = i, !.m_state = 1])
            ELSE choice_for([st EXCEPT !.m_states[i] = r.st], name, i + 1,
                            r.result, r.done)

\* state_*::allow(name): the tuple (result, done) and the state object after
\* the call
allow(st, name) ==
    CASE st.k = "element" ->
            IF ~st.m_done /\ st.m_name = name
            THEN Tuple(TRUE, TRUE, [st EXCEPT !.m_done = TRUE])
            ELSE Tuple(FALSE, st.m_done, st)
      [] st.k \in Repetitions -> repeated_allow(st, name, allow(st.m_sub, name))
      [] st.k = "seq" ->
            IF st.m_state = 0 /\ Len(st.m_states) = 0
            THEN Tuple(FALSE, TRUE, [st EXCEPT !.m_next = 1])
            ELSE LET at == IF st.m_state = 0 THEN 1 ELSE st.m_next
                     r == allow(st.m_states[at], name)
                 IN seq_while([st EXCEPT !.m_state = 1, !.m_next = at,
                                         !.m_states[at] = r.st],
                              name, r.result, r.done)
      [] st.k = "choice" ->
            IF st.m_state = 0
            THEN choice_for(st, name, 1, FALSE, FALSE)
            ELSE LET r == allow(st.m_states[st.m_sub], name)
                 IN Tuple(r.result, r.done, [st EXCEPT !.m_states[st.m_sub] = r.st])

\* validator::validator(content_spec_base &allowed)
ValidatorInit ==
    /\ EmptyDocument /\ NoValues
    /\ content \in ContentSpecs(MaxDepth)
    /\ m_state = create_state(content)
    /\ m_done = allow_empty(m_state)
    /\ fed = <<>>
    /\ accepted = TRUE

\* validator::allow(name).  The caller stops at the first name refused.
Allow(name) ==
    /\ accepted /\ Len(fed) < MaxFed
    /\ LET r == allow(m_state, name)
       IN /\ m_state' = r.st
          /\ m_done' = r.done
          /\ accepted' = r.result
    /\ fed' = Append(fed, name)
    /\ UNCHANGED <<content, domVars, valueVars, chain, builderVars>>

ValidatorNext == \E name \in Names : Allow(name)

SpecValidator == ValidatorInit /\ [][ValidatorNext]_vars

\* The reference matcher: w is a word of the language of the content spec
RECURSIVE Matches(_, _)
RECURSIVE MatchesSeq(_, _)
Matches(cs, w) ==
    CASE cs.k = "element" -> w = <<cs.m_name>>
      [] cs.k = "?" -> w = <<>> \/ Matches(cs.m_allowed, w)
      [] cs.k = "*" ->
            \/ w = <<>>
            \/ \E i \in 1..Len(w) : /\ Matches(cs.m_allowed, SubSeq(w, 1, i))
                                    /\ Matches(cs, SubSeq(w, i + 1, Len(w)))
      [] cs.k = "+" ->
            \/ Matches(cs.m_allowed, w)
            \/ \E i \in 1..(Len(w) - 1) : /\ Matches(cs.m_allowed, SubSeq(w, 1, i))
                                          /\ Matches(cs, SubSeq(w, i + 1, Len(w)))
      [] cs.k = "seq" -> MatchesSeq(cs.m_allowed, w)
      [] cs.k = "choice" -> \E j \in 1..Len(cs.m_allowed) : Matches(cs.m_allowed[j], w)
MatchesSeq(list, w) ==
    IF list = <<>> THEN w = <<>>
    ELSE \E i \in 0..Len(w) : /\ Matches(Head(list), SubSeq(w, 1, i))
                              /\ MatchesSeq(Tail(list), SubSeq(w, i + 1, Len(w)))

\* C4: for every content spec S and every sequence of names w, feeding w name
\* by name to validator(S).allow() returns true for every name and leaves
\* done() true if and only if w is in the language of S as the reference
\* matcher decides it; before any call, done() is true iff S accepts the
\* empty sequence.
C4_ValidatorAgrees ==
    content # <<>> => ((accepted /\ m_done) <=> Matches(content, fed))

-----------------------------------------------------------------------------
(* Part 3: elements as values; equals, str and namespace_for_prefix         *)
(*                                                                         *)
(* A std::string is a sequence of characters.  An attribute is a record of *)
(* its members m_qname, m_value, m_id; an element holds m_qname, the list  *)
(* m_attributes and the list of its child nodes; the other nodes hold      *)
(* m_text.  The parent chain of an element is passed along as the list of  *)
(* the attribute lists of its ancestors, nearest first.                    *)

\* The code of the characters used, for operator<=> of std::string
Ord == (" " :> 32) @@ ("!" :> 33) @@ ("1" :> 49) @@ ("2" :> 50) @@ (":" :> 58) @@
       ("U" :> 85) @@ ("V" :> 86) @@ ("a" :> 97) @@ ("l" :> 108) @@
       ("m" :> 109) @@ ("n" :> 110) @@ ("p" :> 112) @@ ("q" :> 113) @@
       ("s" :> 115) @@ ("t" :> 116) @@ ("x" :> 120)

\* std::string::operator< : lexicographic on the character codes
RECURSIVE string_less(_, _)
string_less(a, b) ==
    IF b = <<>> THEN FALSE
    ELSE IF a = <<>> THEN TRUE
    ELSE IF Head(a) # Head(b) THEN Ord[Head(a)] < Ord[Head(b)]
    ELSE string_less(Tail(a), Tail(b))

\* qn.find(':'): the position of the first colon, 0 for npos
find_colon(qn) ==
    IF \E i \in 1..Len(qn) : qn[i] = ":"
    THEN CHOOSE i \in 1..Len(qn) : qn[i] = ":" /\ \A j \in 1..(i - 1) : qn[j] # ":"
    ELSE 0

\* node::name(): the qname past its first colon
node_name(qn) == SubSeq(qn, find_colon(qn) + 1, Len(qn))

\* node::get_prefix(): the qname up to its first colon, empty without one
get_prefix(qn) == SubSeq(qn, 1, find_colon(qn) - 1)

xmlns == <<"x", "m", "l", "n", "s">>

\* attribute::is_namespace(): m_qname.compare(0, 5, "xmlns") == 0 and
\* (m_qname[5] == 0 or m_qname[5] == ':')
is_namespace(a) ==
    /\ Len(a.m_qname) >= 5
    /\ SubSeq(a.m_qname, 1, 5) = xmlns
    /\ (Len(a.m_qname) = 5 \/ a.m_qname[6] = ":")

\* std::isspace on the characters used
isspace(ch) == ch = " "

\* trim(s): s without the white space at its two ends
RECURSIVE trim(_)
trim(s) ==
    IF s = <<>> THEN s
    ELSE IF isspace(s[Len(s)]) THEN trim(SubSeq(s, 1, Len(s) - 1))
    ELSE IF isspace(Head(s)) THEN trim(Tail(s))
    ELSE s

\* text::is_space()
is_space(n) == \A i \in 1..Len(n.m_text) : isspace(n.m_text[i])

\* attribute::operator<=> as the order of std::set<attribute>: by m_qname,
\* then m_id, then m_value
attribute_less(a, b) ==
    IF a.m_qname # b.m_qname THEN string_less(a.m_qname, b.m_qname)
    ELSE IF a.m_id # b.m_id THEN ~a.m_id
    ELSE string_less(a.m_value, b.m_value)

\* attribute::equals
attribute_equals(a, b) ==
    a.m_id = b.m_id /\ a.m_qname = b.m_qname /\ a.m_value = b.m_value

\* std::set<attribute>(first, last): the attributes in ascending order
RECURSIVE attribute_set_of(_)
attribute_set_of(S) ==
    IF S = {} THEN <<>>
    ELSE LET least == CHOOSE a \in S : \A b \in S \ {a} : attribute_less(a, b)
         IN <<least>> \o attribute_set_of(S \ {least})

\* element::namespace_for_prefix(prefix) for the element whose attribute
\* list is Head(ch) and whose ancestors have the lists Tail(ch); past the
\* root, node::namespace_for_prefix returns the empty string.
RECURSIVE namespace_for_prefix(_, _)
namespace_for_prefix(ch, prefix) ==
    IF ch = <<>> THEN <<>>
    ELSE LET attrs == Head(ch)
             hit == {i \in 1..Len(attrs) :
                       /\ is_namespace(attrs[i])
                       /\ IF node_name(attrs[i].m_qname) = xmlns
                          THEN prefix = <<>>
                          ELSE node_name(attrs[i].m_qname) = prefix}
             found == IF hit = {} THEN <<>>
                      ELSE attrs[CHOOSE i \in hit : \A j \in hit : i <= j].m_value
         IN IF found = <<>> THEN namespace_for_prefix(Tail(ch), prefix)
            ELSE found

\* node::get_ns()
get_ns(qn, ch) == namespace_for_prefix(ch, get_prefix(qn))

\* basic_node_list::operator== on two attribute lists
RECURSIVE list_equals(_, _)
list_equals(as, bs) ==
    IF as = <<>> \/ bs = <<>> THEN as = <<>> /\ bs = <<>>
    ELSE attribute_equals(Head(as), Head(bs)) /\ list_equals(Tail(as), Tail(bs))

\* The loop for (;;) of element::equals over the two sets as and bs, from
\* the iterators ai and bi on, and the assignment to result that follows it
RECURSIVE attributes_loop(_, _, _, _, _, _)
attributes_loop(as, bs, ai, bi, nsa, nsb) ==
    LET a_end == ai > Len(as)
        b_end == bi > Len(bs)
    IN IF a_end /\ b_end THEN nsa = nsb
       ELSE IF ~a_end /\ is_namespace(as[ai])
            THEN attributes_loop(as, bs, ai + 1, bi, nsa \cup {as[ai].m_value}, nsb)
       ELSE IF ~b_end /\ is_namespace(bs[bi])
            THEN attributes_loop(as, bs, ai, bi + 1, nsa, nsb \cup {bs[bi].m_value})
       ELSE IF a_end \/ b_end
            THEN FALSE
       ELSE IF ~attribute_equals(as[ai], bs[bi])
            THEN ai + 1 > Len(as) /\ bi + 1 > Len(bs) /\ nsa = nsb
       ELSE attributes_loop(as, bs, ai + 1, bi + 1, nsa, nsb)

\* The attribute part of element::equals
attributes_equal(as, bs) ==
    \/ list_equals(as, bs)
    \/ attributes_loop(attribute_set_of(Range(as)), attribute_set_of(Range(bs)),
                       1, 1, {}, {})

header == [type |-> "header"]

\* *a for an iterator at position i of the list nodes; end() is the header
Deref(nodes, i) == IF i > Len(nodes) THEN header ELSE nodes[i]

RECURSIVE equals(_, _, _, _)
RECURSIVE children_loop(_, _, _, _, _, _)

\* The while loop of element::equals over the child nodes of a and b, and
\* "a == na.end() and b == nb.end()" after it
children_loop(A, cha, B, chb, i, j) ==
    IF i > Len(A) /\ j > Len(B) THEN TRUE
    ELSE IF equals(Deref(A, i), cha, Deref(B, j), chb)
         THEN children_loop(A, cha, B, chb, i + 1, j + 1)
    ELSE IF Deref(A, i).type = "text" /\ is_space(Deref(A, i))
         THEN children_loop(A, cha, B, chb, i + 1, j)
    ELSE IF Deref(B, j).type = "text" /\ is_space(Deref(B, j))
         THEN children_loop(A, cha, B, chb, i, j + 1)
    ELSE FALSE

\* a->equals(b), by the type of a: node::equals for the header (n == this
\* once its assert is compiled out, and a header is never compared with itself),
\* text::equals, node_with_text::equals behind the type test of comment,
\* cdata and processing_instruction, and element::equals.  cha and chb are
\* the attribute lists of the ancestors of a and b.
equals(a, cha, b, chb) ==
    CASE a.type = "header" -> FALSE
      [] a.type = "text" -> b.type = "text" /\ trim(a.m_text) = trim(b.m_text)
      [] a.type \in {"comment", "cdata", "processing_instruction"} ->
            b.type = a.type /\ a.m_text = b.m_text
      [] a.type = "element" ->
            /\ b.type = "element"
            /\ node_name(a.m_qname) = node_name(b.m_qname)
            /\ get_ns(a.m_qname, <<a.m_attributes>> \o cha) =
               get_ns(b.m_qname, <<b.m_attributes>> \o chb)
            /\ children_loop(a.nodes, <<a.m_attributes>> \o cha,
                             b.nodes, <<b.m_attributes>> \o chb, 1, 1)
            /\ attributes_equal(a.m_attributes, b.m_attributes)

RECURSIVE str(_)
RECURSIVE str_nodes(_)

\* A str() to which comments and processing instructions add nothing
str_text_only(n) ==
    IF n.type = "element" THEN str_nodes(n.nodes)
    ELSE IF n.type \in {"text", "cdata"} THEN n.m_text
    ELSE <<>>
\* node::str(): node_with_text::str for the nodes with text,
\* element_container::str for an element
str(n) == IF n.type = "element" THEN str_nodes(n.nodes) ELSE n.m_text
str_nodes(nodes) ==
    IF nodes = <<>> THEN <<>> ELSE str(Head(nodes)) \o str_nodes(Tail(nodes))

\* attribute_set::find(key): the position of the attribute with that qname,
\* Len(attrs) + 1 for end()
find_qname(attrs, key) ==
    IF \E i \in 1..Len(attrs) : attrs[i].m_qname = key
    THEN CHOOSE i \in 1..Len(attrs) :
            attrs[i].m_qname = key /\ \A j \in 1..(i - 1) : attrs[j].m_qname # key
    ELSE Len(attrs) + 1

\* attribute_set::emplace(a): assigns to the attribute of that qname, or
\* inserts the new attribute before end()
attribute_set_emplace(attrs, a) ==
    LET i == find_qname(attrs, a.m_qname)
    IN IF i # Len(attrs) + 1 THEN [attrs EXCEPT ![i] = a]
       ELSE Append(attrs, a)

\* attribute_set::erase(key)
attribute_set_erase(attrs, key) ==
    LET i == find_qname(attrs, key)
    IN IF i # Len(attrs) + 1
       THEN SubSeq(attrs, 1, i - 1) \o SubSeq(attrs, i + 1, Len(attrs))
       ELSE attrs

(* The values the specifications below start from *)

Prefixes == {<<"p">>, <<"q">>}
Prefixed(p, local) == p \o <<":">> \o local
Declaration(p) == IF p = <<>> THEN xmlns ELSE Prefixed(xmlns, p)

\* attribute(qname, value): m_id is false unless a DTD says otherwise
Attr(qn, v) == [m_qname |-> qn, m_value |-> v, m_id |-> FALSE]

\* text, cdata, comment and processing_instruction nodes
Text(s) == [type |-> "text", m_text |-> s]
CData(s) == [type |-> "cdata", m_text |-> s]
Comment(s) == [type |-> "comment", m_text |-> s]
PI(target, s) == [type |-> "processing_instruction", m_target |-> target, m_text |-> s]

\* The sequences of at most n members of S
SeqsUpTo(S, n) == UNION {[1..k -> S] : k \in 0..n}

\* The attribute lists an attribute_set can hold: no qname twice
AttributeLists(qnames, values, n) ==
    {l \in SeqsUpTo({Attr(q, v) : q \in qnames, v \in values}, n) :
        \A i, j \in 1..Len(l) : i # j => l[i].m_qname # l[j].m_qname}

\* element(qname, attributes) with the child nodes kids
ElementsOver(qnames, attrLists, kidLists) ==
    {[type |-> "element", m_qname |-> q, m_attributes |-> a, nodes |-> k] :
        q \in qnames, a \in attrLists, k \in kidLists}

NoDom == EmptyDocument /\ NoValidator

(* element::equals on any two elements *)

\* The elements compared: named t or p:t, with attributes x and
\* declarations of p and q, and at most MaxPairKids child nodes
PairUniverse ==
    ElementsOver({<<"t">>, Prefixed(<<"p">>, <<"t">>)},
                 AttributeLists({<<"x">>, Declaration(<<"p">>), Declaration(<<"q">>)},
                                {<<"1">>, <<"2">>}, MaxAttrs),
                 SeqsUpTo({Text(<<"1">>), Text(<<" ">>),
                           [type |-> "element", m_qname |-> <<"t">>,
                            m_attributes |-> <<>>, nodes |-> <<>>]},
                          MaxPairKids))

EqualsInit ==
    /\ NoDom
    /\ NoXPath
    /\ NoBuilder
    /\ ea \in PairUniverse
    /\ eb \in PairUniverse
    /\ returned = <<>>
    /\ chain = <<>>

\* a == b for the two root elements a and b
Compare ==
    /\ returned = <<>>
    /\ returned' = <<equals(ea, <<>>, eb, <<>>)>>
    /\ UNCHANGED <<ea, eb, chain, ctxt, path, m_path, domVars, validatorVars, builderVars>>

SpecEquals == EqualsInit /\ [][Compare]_vars

(* element::equals on a tree and the same tree with other prefixes *)

\* The one-to-one renamings of the prefixes
Renamings == {r \in [Prefixes -> Prefixes] : \A x, y \in Prefixes : r[x] = r[y] => x = y}

RenameQName(qn, r) ==
    IF get_prefix(qn) \in Prefixes THEN Prefixed(r[get_prefix(qn)], node_name(qn))
    ELSE qn

RenameAttr(a, r) ==
    IF is_namespace(a)
    THEN IF node_name(a.m_qname) \in Prefixes
         THEN [a EXCEPT !.m_qname = Declaration(r[node_name(a.m_qname)])]
         ELSE a
    ELSE [a EXCEPT !.m_qname = RenameQName(a.m_qname, r)]

\* The tree n with every prefix p, in element names, attribute names and
\* namespace declarations, replaced by r[p]
RECURSIVE Rename(_, _)
Rename(n, r) ==
    IF n.type # "element" THEN n
    ELSE [type |-> "element",
          m_qname |-> RenameQName(n.m_qname, r),
          m_attributes |-> [i \in 1..Len(n.m_attributes) |-> RenameAttr(n.m_attributes[i], r)],
          nodes |-> [i \in 1..Len(n.nodes) |-> Rename(n.nodes[i], r)]]

\* The trees renamed: a root named t, p:t or q:t with attributes x and p:x
\* and declarations of p and q, over text and prefixed child elements
RenameUniverse ==
    ElementsOver({<<"t">>} \cup {Prefixed(p, <<"t">>) : p \in Prefixes},
                 AttributeLists({<<"x">>, Prefixed(<<"p">>, <<"x">>),
                                 Declaration(<<"p">>), Declaration(<<"q">>)},
                                {<<"U">>, <<"V">>}, MaxAttrs),
                 SeqsUpTo({Text(<<"1">>)} \cup
                          ElementsOver({Prefixed(<<"p">>, <<"t">>)},
                                       {<<>>, <<Attr(Prefixed(<<"p">>, <<"x">>), <<"U">>)>>},
                                       {<<>>}),
                          MaxKids))

RenameInit ==
    /\ NoDom
    /\ NoXPath
    /\ NoBuilder
    /\ ea \in RenameUniverse
    /\ \E r \in Renamings : eb = Rename(ea, r)
    /\ returned = <<>>
    /\ chain = <<>>

SpecRename == RenameInit /\ [][Compare]_vars

\* The attributes of the list attrs that are namespace declarations, or not
Declarations(attrs) == {attrs[i] : i \in {j \in 1..Len(attrs) : is_namespace(attrs[j])}}
PlainAttributes(attrs) == {attrs[i] : i \in {j \in 1..Len(attrs) : ~is_namespace(attrs[j])}}

\* Equality as documented: the same local name and namespace URI, the child
\* nodes equal in order but for white space, the other attributes equal as
\* sets of (qname, value), the declarations equal as sets of URIs
SameElement(a, b) ==
    /\ node_name(a.m_qname) = node_name(b.m_qname)
    /\ get_ns(a.m_qname, <<a.m_attributes>>) = get_ns(b.m_qname, <<b.m_attributes>>)
    /\ children_loop(a.nodes, <<a.m_attributes>>, b.nodes, <<b.m_attributes>>, 1, 1)
    /\ {<<x.m_qname, x.m_value>> : x \in PlainAttributes(a.m_attributes)} =
       {<<x.m_qname, x.m_value>> : x \in PlainAttributes(b.m_attributes)}
    /\ {x.m_value : x \in Declarations(a.m_attributes)} =
       {x.m_value : x \in Declarations(b.m_attributes)}

\* C5: a == b is true if and only if a and b have the same local name and
\* namespace URI, child nodes that are equal in order once white space text
\* is skipped, the same set of (qname, value) among the attributes that
\* declare no namespace, and the same set of URIs among those that do.
C5_EqualsIffSame ==
    returned # <<>> => (returned[1] <=> SameElement(ea, eb))

\* Every prefix used in the tree n, by an element or by an attribute, is
\* declared on that element or on an ancestor; ch as for equals
RECURSIVE PrefixesDeclared(_, _)
PrefixesDeclared(n, ch) ==
    n.type = "element" =>
        LET here == <<n.m_attributes>> \o ch
            bound(qn) == get_prefix(qn) = <<>> \/ get_ns(qn, here) # <<>>
        IN /\ bound(n.m_qname)
           /\ \A x \in PlainAttributes(n.m_attributes) : bound(x.m_qname)
           /\ \A i \in 1..Len(n.nodes) : PrefixesDeclared(n.nodes[i], here)

\* C6: a tree and the same tree with its prefixes renamed one to one, in
\* element names, attribute names and namespace declarations, are equal.
C6_PrefixesDoNotMatter ==
    (returned # <<>> /\ PrefixesDeclared(ea, <<>>)) => returned[1]

(* element_container::str *)

\* The nodes without children: one of each type, each with a text of its own
Leaves == {Text(<<"1">>), CData(<<"2">>), Comment(<<"a">>), PI(<<"t">>, <<"x">>)}

\* The elements whose text is taken: child nodes that are leaves or
\* elements holding leaves
StrUniverse ==
    ElementsOver({<<"t">>}, {<<>>},
                 SeqsUpTo(Leaves \cup ElementsOver({<<"t">>}, {<<>>}, SeqsUpTo(Leaves, MaxKids)),
                          MaxKids))

StrInit ==
    /\ NoDom
    /\ NoXPath
    /\ NoBuilder
    /\ ea \in StrUniverse
    /\ eb = <<>>
    /\ returned = <<>>
    /\ chain = <<>>

\* ea.str()
Str ==
    /\ returned = <<>>
    /\ returned' = <<str(ea)>>
    /\ UNCHANGED <<ea, eb, chain, ctxt, path, m_path, domVars, validatorVars, builderVars>>

SpecStr == StrInit /\ [][Str]_vars

\* The descendants of n that have no children, in document order
RECURSIVE LeavesOf(_)
LeavesOf(n) ==
    IF n.type # "element" THEN <<n>>
    ELSE IF n.nodes = <<>> THEN <<>>
    ELSE LeavesOf(Head(n.nodes)) \o LeavesOf([n EXCEPT !.nodes = Tail(n.nodes)])

\* The texts of the nodes of the list l whose type is in types, concatenated
RECURSIVE TextOf(_, _)
TextOf(l, types) ==
    IF l = <<>> THEN <<>>
    ELSE (IF Head(l).type \in types THEN Head(l).m_text ELSE <<>>) \o TextOf(Tail(l), types)

\* C7 as stated: e.str() is the concatenation, in document order, of the
\* text of the descendant text and CDATA nodes of e and of nothing else.
C7_StrTextAndCData ==
    returned # <<>> => returned[1] = TextOf(LeavesOf(ea), {"text", "cdata"})

\* C7, amended: e.str() is the concatenation, in document order, of the text
\* of all descendant text, CDATA, comment and processing-instruction nodes.
C7_StrAllNodes ==
    returned # <<>> =>
        returned[1] = TextOf(LeavesOf(ea), {"text", "cdata", "comment", "processing_instruction"})

\* str() was taken of an element with a comment below a child element, after
\* a text node, and the text of the comment is a part of the result
C7_Witness ==
    /\ returned # <<>>
    /\ Len(ea.nodes) = 2
    /\ ea.nodes[1] = Text(<<"1">>)
    /\ ea.nodes[2].type = "element"
    /\ ea.nodes[2].nodes = <<Comment(<<"a">>)>>
    /\ returned[1] = <<"1", "a">>

(* element::namespace_for_prefix below changing ancestors *)

\* The qnames and values of the declarations made: of the default namespace
\* and of the prefix p; the empty value undeclares
DeclaredNames == {Declaration(<<>>), Declaration(<<"p">>)}
DeclaredValues == {<<>>, <<"U">>, <<"V">>}

\* chain[1] holds the attributes of an element d, chain[i + 1] those of the
\* parent of the element of chain[i]; the last element is a root
NamespaceInit ==
    /\ NoDom
    /\ NoXPath
    /\ NoBuilder
    /\ ea = <<>>
    /\ eb = <<>>
    /\ returned = <<>>
    /\ chain \in [1..MaxChain -> AttributeLists(DeclaredNames, DeclaredValues, MaxAttrs)]

\* set_attribute(qn, v) on the i-th ancestor of d
Declare(i, qn, v) ==
    /\ chain' = [chain EXCEPT ![i + 1] = attribute_set_emplace(@, Attr(qn, v))]
    /\ UNCHANGED <<ea, eb, returned, ctxt, path, m_path, domVars, validatorVars, builderVars>>

\* attributes().erase(qn) on the i-th ancestor of d
Undeclare(i, qn) ==
    /\ chain' = [chain EXCEPT ![i + 1] = attribute_set_erase(@, qn)]
    /\ UNCHANGED <<ea, eb, returned, ctxt, path, m_path, domVars, validatorVars, builderVars>>

NamespaceNext ==
    \E i \in 1..(MaxChain - 1), qn \in DeclaredNames :
        \/ \E v \in DeclaredValues : Declare(i, qn, v)
        \/ Undeclare(i, qn)

SpecNamespace == NamespaceInit /\ [][NamespaceNext]_vars

\* The element with the attributes attrs declares the prefix p
DeclaresPrefix(attrs, p) == \E x \in Declarations(attrs) : x.m_qname = Declaration(p)

\* C8: when d has a declaration of its own for the prefix p, a declaration
\* for p added to, changed on or removed from an ancestor of d leaves
\* d.namespace_for_prefix(p) as it was.
C8_ResolutionMonotone ==
    [][\A p \in {<<>>, <<"p">>} :
          DeclaresPrefix(chain[1], p) =>
              namespace_for_prefix(chain', p) = namespace_for_prefix(chain, p)]_vars

-----------------------------------------------------------------------------
(* Part 4: XPath evaluation (xpath.cxx) over the documents of Part 1       *)
(*                                                                         *)
(* The nodes are the objects of the store of Part 1.  The tag of a text    *)
(* node stands for its text: tag 0 is the empty text, tag t the text made  *)
(* of the one digit t.  A string is a sequence of characters as in Part 3, *)
(* a number a natural number or NaN, a node_set (std::vector<node *>) a    *)
(* sequence of addresses.  An object is a record of its m_type and of the  *)
(* member that type selects; a call that throws yields the type            *)
(* "exception" with what() as its value.                                   *)

NaN == 0 - 2       \* std::nan("1")

DigitChars == <<"0", "1", "2", "3", "4", "5", "6", "7", "8", "9">>
DigitOf(ch) == (CHOOSE i \in 1..10 : DigitChars[i] = ch) - 1
IsDigit(ch) == \E i \in 1..10 : DigitChars[i] = ch

\* The names of the model are the numbers of Tags; this one is the name "*"
AnyName == 0 - 3

\* The text a tag stands for
TextOfTag(t) == IF t = 0 THEN <<>> ELSE <<DigitChars[t + 1]>>

Object(ty, val) == [m_type |-> ty, v |-> val]
Undef == Object("undef", <<>>)         \* object::object()
Thrown(what) == Object("exception", what)

\* using context_node = node_list<element>: the dynamic_cast succeeds for an
\* element and for the document
IsContextNode(s, n) == n # NULL /\ s.type[n] \in {"element", "document"}

\* node::name() of a node of the store; only elements and attributes have a
\* qname, text and the document have the empty one
NameOf(s, n) == IF s.type[n] \in {"element", "attribute"} THEN s.tag[n] ELSE 0

\* node::str() of a node of the store, as str above
RECURSIVE StrOf(_, _)
RECURSIVE StrOfList(_, _)
StrOf(s, n) ==
    IF s.type[n] \in {"element", "document"} THEN StrOfList(s, ListSeq(s, Hdr(n)))
    ELSE TextOfTag(s.tag[n])
StrOfList(s, l) ==
    IF l = <<>> THEN <<>> ELSE StrOf(s, Head(l)) \o StrOfList(s, Tail(l))

\* node::root(): the document at the top of the parent chain, nullptr when
\* there is none
RECURSIVE RootOf(_, _)
RootOf(s, n) ==
    IF s.type[n] = "document" THEN n
    ELSE IF s.parent[n] = NULL THEN NULL
    ELSE RootOf(s, s.parent[n])

\* The test of a step on the node n: name_test_step_expression::name_matches
\* and node_type_expression<T>::test
StepTest(s, x, n) ==
    IF x.k = "name_test" THEN x.m_name = AnyName \/ NameOf(s, n) = x.m_name
    ELSE CASE x.T = "node" -> TRUE
           [] x.T = "text" -> s.type[n] \in {"text", "cdata"}
           [] OTHER -> s.type[n] = x.T

\* What "for (element &child : *context)" and "for (node &child :
\* node_list<>(*context))" visit
ChildList(s, c, elementsOnly) ==
    LET l == ListSeq(s, Hdr(c))
    IN IF elementsOnly
       THEN SelectSeq(l, LAMBDA n : s.type[n] = "element")
       ELSE l

\* iterate_child_elements / iterate_child_nodes over the children l that
\* are still to be visited: a child already in the set is passed over, and
\* so are its descendants
RECURSIVE iterate_children(_, _, _, _, _, _)
iterate_children(s, l, set, deep, x, elementsOnly) ==
    IF l = <<>> THEN set
    ELSE IF Head(l) \in Range(set)
         THEN iterate_children(s, Tail(l), set, deep, x, elementsOnly)
    ELSE LET child == Head(l)
             pushed == IF StepTest(s, x, child) THEN Append(set, child) ELSE set
             below == IF deep /\ IsContextNode(s, child)
                      THEN iterate_children(s, ChildList(s, child, elementsOnly),
                                            pushed, deep, x, elementsOnly)
                      ELSE pushed
         IN iterate_children(s, Tail(l), below, deep, x, elementsOnly)

\* iterate_ancestor, from the parent of the context node up to, but without,
\* the document
RECURSIVE iterate_ancestor(_, _, _, _)
iterate_ancestor(s, n, set, x) ==
    IF n = NULL \/ s.type[n] = "document" THEN set
    ELSE iterate_ancestor(s, s.parent[n],
                          IF StepTest(s, x, n) THEN Append(set, n) ELSE set, x)

\* iterate_following (forward) and iterate_preceding (~forward) from the
\* node n: siblings that are no element are passed over
RECURSIVE iterate_siblings(_, _, _, _, _, _, _)
iterate_siblings(s, n, set, sibling, x, elementsOnly, forward) ==
    IF n = NULL \/ s.type[n] = "document" THEN set
    ELSE LET m == IF forward THEN s.next[n] ELSE s.prev[n]
         IN IF s.type[m] = "header"
            THEN IF sibling THEN set
                 ELSE iterate_siblings(s, s.parent[n], set, sibling, x, elementsOnly, forward)
            ELSE IF ~IsContextNode(s, m)
                 THEN iterate_siblings(s, m, set, sibling, x, elementsOnly, forward)
            ELSE LET pushed == IF StepTest(s, x, m) THEN Append(set, m) ELSE set
                     below == IF sibling THEN pushed
                              ELSE iterate_children(s, ChildList(s, m, elementsOnly),
                                                    pushed, TRUE, x, elementsOnly)
                 IN iterate_siblings(s, m, below, sibling, x, elementsOnly, forward)

\* iterate_attributes; iterate_namespaces visits the attributes for which
\* is_namespace() holds, and no qname of the store is xmlns
iterate_attributes(s, e, x) ==
    IF s.type[e] = "element"
    THEN SelectSeq(ListSeq(s, AHdr(e)), LAMBDA a : StepTest(s, x, a))
    ELSE <<>>

\* step_expression::evaluate(context, pred, elementsOnly) with m_node the
\* context node: nothing for a context node that is no context_node
step_evaluate(s, x, m_node) ==
    LET elementsOnly == x.k = "name_test"
        self == IF StepTest(s, x, m_node) THEN <<m_node>> ELSE <<>>
        children(deep, set) ==
            iterate_children(s, ChildList(s, m_node, elementsOnly), set, deep, x, elementsOnly)
    IN IF ~IsContextNode(s, m_node) THEN <<>>
       ELSE CASE x.m_axis = "parent" ->
                   IF s.parent[m_node] # NULL /\ StepTest(s, x, s.parent[m_node])
                   THEN <<s.parent[m_node]>> ELSE <<>>
              [] x.m_axis = "ancestor" -> iterate_ancestor(s, s.parent[m_node], <<>>, x)
              [] x.m_axis = "ancestor-or-self" -> iterate_ancestor(s, s.parent[m_node], self, x)
              [] x.m_axis = "self" -> self
              [] x.m_axis = "child" -> children(FALSE, <<>>)
              [] x.m_axis = "descendant" -> children(TRUE, <<>>)
              [] x.m_axis = "descendant-or-self" -> children(TRUE, self)
              [] x.m_axis = "following" ->
                   iterate_siblings(s, m_node, <<>>, FALSE, x, elementsOnly, TRUE)
              [] x.m_axis = "following-sibling" ->
                   iterate_siblings(s, m_node, <<>>, TRUE, x, elementsOnly, TRUE)
              [] x.m_axis = "preceding" ->
                   iterate_siblings(s, m_node, <<>>, FALSE, x, elementsOnly, FALSE)
              [] x.m_axis = "preceding-sibling" ->
                   iterate_siblings(s, m_node, <<>>, TRUE, x, elementsOnly, FALSE)
              [] x.m_axis = "attribute" -> iterate_attributes(s, m_node, x)
              [] x.m_axis = "namespace" -> <<>>

\* std::from_chars on a string of digits: the number it spells; NaN for the
\* empty string and for a string that holds another character
RECURSIVE DecimalValue(_)
DecimalValue(digits) ==
    IF digits = <<>> THEN 0
    ELSE 10 * DecimalValue(SubSeq(digits, 1, Len(digits) - 1)) + DigitOf(digits[Len(digits)])

from_chars(digits) ==
    IF digits = <<>> \/ \E i \in 1..Len(digits) : ~IsDigit(digits[i]) THEN NaN
    ELSE DecimalValue(digits)

\* std::to_string(double) of a natural number, "nan" for NaN
RECURSIVE Decimal(_)
Decimal(n) ==
    IF n < 10 THEN <<DigitChars[n + 1]>>
    ELSE Decimal(n \div 10) \o <<DigitChars[(n % 10) + 1]>>

to_string(n) ==
    IF n = NaN THEN <<"n", "a", "n">>
    ELSE Decimal(n) \o <<".", "0", "0", "0", "0", "0", "0">>

\* object::as<bool>()
as_bool(o) ==
    CASE o.m_type = "number" -> o.v # 0 /\ o.v # NaN
      [] o.m_type = "node_set" -> o.v # <<>>
      [] o.m_type = "string" -> o.v # <<>>
      [] o.m_type = "boolean" -> o.v
      [] OTHER -> FALSE

\* object::as<double>(): a node-set gives the number of its first node
as_double(s, o) ==
    CASE o.m_type = "number" -> o.v
      [] o.m_type = "node_set" -> IF o.v = <<>> THEN NaN ELSE from_chars(StrOf(s, o.v[1]))
      [] o.m_type = "string" -> from_chars(o.v)
      [] o.m_type = "boolean" -> IF o.v THEN 1 ELSE 0
      [] OTHER -> 0

\* object::as<std::string>(): a node-set gives the str() of all its nodes,
\* one after the other; std::to_string writes a number with six decimals
as_string(s, o) ==
    CASE o.m_type = "number" -> to_string(o.v)
      [] o.m_type = "string" -> o.v
      [] o.m_type = "boolean" -> IF o.v THEN <<"t", "r", "u", "e">>
                                 ELSE <<"f", "a", "l", "s", "e">>
      [] o.m_type = "node_set" -> StrOfList(s, o.v)
      [] OTHER -> <<>>

\* operator== of double: NaN equals nothing
double_equal(a, b) == a # NaN /\ b # NaN /\ a = b

\* object::operator==
object_equal(s, a, b) ==
    IF a.m_type = b.m_type
    THEN CASE a.m_type = "number" -> double_equal(a.v, b.v)
           [] a.m_type \in {"node_set", "boolean", "string"} -> a.v = b.v
           [] OTHER -> FALSE
    ELSE IF a.m_type = "number" \/ b.m_type = "number"
         THEN double_equal(as_double(s, a), as_double(s, b))
    ELSE IF a.m_type = "string" \/ b.m_type = "string"
         THEN as_string(s, a) = as_string(s, b)
    ELSE IF a.m_type = "boolean" \/ b.m_type = "boolean"
         THEN as_bool(a) = as_bool(b)
    ELSE FALSE

\* expression_context::position(): the place of m_node in m_node_set, its
\* size when m_node is not in it; 0 makes it throw
position(m_node, m_node_set) ==
    IF m_node \in Range(m_node_set)
    THEN CHOOSE i \in 1..Len(m_node_set) :
            m_node_set[i] = m_node /\ \A j \in 1..(i - 1) : m_node_set[j] # m_node
    ELSE Len(m_node_set)

\* context_imp::get(name): m_variables[name] makes an entry holding an
\* undefined object for a name that has none
context_get(m_variables, var) ==
    IF \E i \in 1..Len(m_variables) : m_variables[i].name = var THEN m_variables
    ELSE Append(m_variables, [name |-> var, value |-> Undef])

\* The value the map m_variables holds for the name var
at(m_variables, var) ==
    m_variables[CHOOSE i \in 1..Len(m_variables) : m_variables[i].name = var].value

\* The names the map m_variables has an entry for
keys(m_variables) == {m_variables[i].name : i \in 1..Len(m_variables)}

\* The members of the set S of addresses in ascending order
RECURSIVE Ascending(_)
Ascending(S) ==
    IF S = {} THEN <<>>
    ELSE LET least == CHOOSE x \in S : \A y \in S : x <= y
         IN <<least>> \o Ascending(S \ {least})

\* A union that goes through a std::set<node *>: no node twice, the nodes in
\* the order of their addresses
union_by_address(s1, s2) == Ascending(Range(s1) \cup Range(s2))
\* union_expression::evaluate on two node-sets: s2 is copied behind s1
union_node_sets(s1, s2) == s1 \o s2

\* What a call of evaluate leaves: the object returned, or the exception
\* thrown, and the variables of the context
Outcome(o, m_variables) == [o |-> o, m_variables |-> m_variables]

NotNodeSet == "object is not of type node-set"

RECURSIVE evaluate(_, _, _, _, _)
RECURSIVE path_loop(_, _, _, _, _, _)
RECURSIVE predicate_loop(_, _, _, _, _, _)

\* The loop of path_expression::evaluate over the node-set v, from its i-th
\* node on: m_rhs is evaluated for each node and its nodes are copied to the
\* end of result
path_loop(s, m_rhs, v, i, result, m_variables) ==
    IF i > Len(v) THEN Outcome(Object("node_set", result), m_variables)
    ELSE LET r == evaluate(s, m_rhs, v[i], v, m_variables)
         IN IF r.o.m_type = "exception" THEN r
            ELSE IF r.o.m_type # "node_set" THEN Outcome(Thrown(NotNodeSet), r.m_variables)
            ELSE path_loop(s, m_rhs, v, i + 1, result \o r.o.v, r.m_variables)

\* The loop of predicate_expression::evaluate: a number is compared with the
\* position of the node, anything else is taken as a boolean
predicate_loop(s, m_pred, v, i, result, m_variables) ==
    IF i > Len(v) THEN Outcome(Object("node_set", result), m_variables)
    ELSE LET r == evaluate(s, m_pred, v[i], v, m_variables)
             keep == IF r.o.m_type = "number"
                     THEN double_equal(position(v[i], v), r.o.v)
                     ELSE as_bool(r.o)
         IN IF r.o.m_type = "exception" THEN r
            ELSE predicate_loop(s, m_pred, v, i + 1,
                                IF keep THEN Append(result, v[i]) ELSE result,
                                r.m_variables)

\* expression::evaluate(context) for the expression x, the context node
\* m_node, the context node-set m_node_set and the variables of the context
evaluate(s, x, m_node, m_node_set, m_variables) ==
    CASE x.k = "root" ->
            Outcome(Object("node_set", <<RootOf(s, m_node)>>), m_variables)
      [] x.k \in {"name_test", "node_type"} ->
            Outcome(Object("node_set", step_evaluate(s, x, m_node)), m_variables)
      [] x.k = "path" ->
            LET l == evaluate(s, x.m_lhs, m_node, m_node_set, m_variables)
            IN IF l.o.m_type = "exception" THEN l
               ELSE IF l.o.m_type # "node_set"
                    THEN Outcome(Thrown("filter does not evaluate to a node-set"), l.m_variables)
               ELSE path_loop(s, x.m_rhs, l.o.v, 1, <<>>, l.m_variables)
      [] x.k = "predicate" ->
            LET l == evaluate(s, x.m_path, m_node, m_node_set, m_variables)
            IN IF l.o.m_type = "exception" THEN l
               ELSE IF l.o.m_type # "node_set" THEN Outcome(Thrown(NotNodeSet), l.m_variables)
               ELSE predicate_loop(s, x.m_pred, l.o.v, 1, <<>>, l.m_variables)
      [] x.k = "union" ->
            LET l == evaluate(s, x.m_lhs, m_node, m_node_set, m_variables)
            IN IF l.o.m_type = "exception" THEN l
               ELSE LET r == evaluate(s, x.m_rhs, m_node, m_node_set, l.m_variables)
                    IN IF r.o.m_type = "exception" THEN r
                       ELSE IF l.o.m_type # "node_set" \/ r.o.m_type # "node_set"
                            THEN Outcome(Thrown("union operator works only on node sets"),
                                         r.m_variables)
                       ELSE Outcome(Object("node_set", union_node_sets(l.o.v, r.o.v)),
                                    r.m_variables)
      [] x.k = "variable" ->
            LET after == context_get(m_variables, x.m_var)
            IN Outcome(at(after, x.m_var), after)
      [] x.k = "literal" -> Outcome(Object("string", x.m_lit), m_variables)
      [] x.k = "number" -> Outcome(Object("number", x.m_number), m_variables)
      [] x.k = "equal" ->
            LET l == evaluate(s, x.m_lhs, m_node, m_node_set, m_variables)
            IN IF l.o.m_type = "exception" THEN l
               ELSE LET r == evaluate(s, x.m_rhs, m_node, m_node_set, l.m_variables)
                    IN IF r.o.m_type = "exception" THEN r
                       ELSE Outcome(Object("boolean", object_equal(s, l.o, r.o)), r.m_variables)
      [] x.k = "multiply" ->
            LET l == evaluate(s, x.m_lhs, m_node, m_node_set, m_variables)
            IN IF l.o.m_type = "exception" THEN l
               ELSE LET r == evaluate(s, x.m_rhs, m_node, m_node_set, l.m_variables)
                    IN IF r.o.m_type = "exception" THEN r
                       ELSE Outcome(Object("number",
                                IF as_double(s, l.o) = NaN \/ as_double(s, r.o) = NaN THEN NaN
                                ELSE as_double(s, l.o) * as_double(s, r.o)), r.m_variables)
      [] x.k = "position" ->
            IF position(m_node, m_node_set) = 0
            THEN Outcome(Thrown("invalid context for position"), m_variables)
            ELSE Outcome(Object("number", position(m_node, m_node_set)), m_variables)
      [] x.k = "last" -> Outcome(Object("number", Len(m_node_set)), m_variables)
      [] x.k = "true" -> Outcome(Object("boolean", TRUE), m_variables)
      [] x.k = "false" -> Outcome(Object("boolean", FALSE), m_variables)
      [] x.k \in {"boolean", "not"} ->
            LET a == evaluate(s, x.m_args[1], m_node, m_node_set, m_variables)
            IN IF a.o.m_type = "exception" THEN a
               ELSE Outcome(Object("boolean", (x.k = "boolean") = as_bool(a.o)), a.m_variables)
      [] x.k = "count" ->
            LET a == evaluate(s, x.m_args[1], m_node, m_node_set, m_variables)
            IN IF a.o.m_type = "exception" THEN a
               ELSE IF a.o.m_type # "node_set" THEN Outcome(Thrown(NotNodeSet), a.m_variables)
               ELSE Outcome(Object("number", Len(a.o.v)), a.m_variables)

\* xpath_imp::evaluate(root, ctxt): the result has to be a node-set
xpath_evaluate(s, m_expr, root, m_variables) ==
    LET r == evaluate(s, m_expr, root, <<>>, m_variables)
    IN IF r.o.m_type \in {"exception", "node_set"} THEN r
       ELSE Outcome(Thrown(NotNodeSet), r.m_variables)

-----------------------------------------------------------------------------
(* The parser of xpath_imp, on the tokens get_next_token hands out         *)
(*                                                                         *)
(* A token is a record of its Token value t and of the text v the scanner  *)
(* turns into m_token_string, m_token_number, m_token_axis or              *)
(* m_token_function: a name is one digit, a literal at most one character, *)
(* a number one digit.                                                     *)
(* The tokens or, and, mod, div, +, -, !=, <, <=, > and >= are not among   *)
(* the tokens of the paths parsed here, so that the loops of or_expr,      *)
(* and_expr, relational_expr and additive_expr end at once and unary_expr  *)
(* takes its second branch.                                                *)

Tok(tk, val) == [t |-> tk, v |-> val]
lookahead(ts) == IF ts = <<>> THEN "Eof" ELSE Head(ts).t

\* What a parsing function leaves: the expression built and the tokens not
\* yet matched, or the exception thrown
Parsed(e, rest) == [e |-> e, rest |-> rest, exc |-> NoException]
Failed(what) == [e |-> <<>>, rest |-> <<>>, exc |-> what]
SyntaxError == "syntax error in xpath"

kOptionalArgument == 0 - 100

\* kCoreFunctionInfo: the arg_count of every core function
kCoreFunctionInfo ==
    [last |-> 0, position |-> 0, count |-> 1, id |-> 0,
     local_name |-> kOptionalArgument, namespace_uri |-> kOptionalArgument,
     name |-> kOptionalArgument, string |-> kOptionalArgument,
     concat |-> 0 - 2, starts_with |-> 2, contains |-> 2,
     substring_before |-> 2, substring_after |-> 2, substring |-> 0 - 2,
     string_length |-> kOptionalArgument, normalize_space |-> kOptionalArgument,
     translate |-> 3, boolean |-> 1, not |-> 1, true |-> 0, false |-> 0,
     lang |-> 0, number |-> kOptionalArgument, sum |-> 0, floor |-> 1,
     ceiling |-> 1, round |-> 1, comment |-> 1]

\* The test function_call makes on the number of arguments: the message of
\* the exception it throws, or no exception
arity_check(function, size) ==
    LET expected_arg_count == kCoreFunctionInfo[function]
    IN IF expected_arg_count > 0
       THEN IF size # expected_arg_count
            THEN "invalid number of arguments for function" ELSE NoException
       ELSE IF expected_arg_count = kOptionalArgument
            THEN IF size > 1
                 THEN "incorrect number of arguments for function" ELSE NoException
       ELSE IF expected_arg_count < 0 /\ size < 0 - expected_arg_count
            THEN "insufficient number of arguments for function"
       ELSE NoException

RECURSIVE relative_location_path(_)
RECURSIVE relative_loop(_)
RECURSIVE step(_)
RECURSIVE brackets_loop(_)
RECURSIVE expr(_)
RECURSIVE equality_loop(_)
RECURSIVE multiplicative_expr(_)
RECURSIVE multiplicative_loop(_)
RECURSIVE union_expr(_)
RECURSIVE union_loop(_)
RECURSIVE path_expr(_)
RECURSIVE filter_expr(_)
RECURSIVE primary_expr(_)
RECURSIVE function_call(_)
RECURSIVE arguments_loop(_, _)

\* xpath_imp::node_test(axis)
node_test(axis, ts) ==
    CASE lookahead(ts) = "Asterisk" ->
            Parsed([k |-> "name_test", m_axis |-> axis, m_name |-> AnyName], Tail(ts))
      [] lookahead(ts) = "NodeType" ->
            Parsed([k |-> "node_type", m_axis |-> axis, T |-> Head(ts).v], Tail(ts))
      [] lookahead(ts) = "Name" ->
            Parsed([k |-> "name_test", m_axis |-> axis, m_name |-> DigitOf(Head(ts).v)],
                   Tail(ts))
      [] OTHER -> Failed(SyntaxError)

\* while (m_lookahead == Token::LeftBracket) of step and of filter_expr
brackets_loop(r) ==
    IF r.exc # NoException \/ lookahead(r.rest) # "LeftBracket" THEN r
    ELSE LET predicate(p) ==
                 IF p.exc # NoException THEN p
                 ELSE IF lookahead(p.rest) # "RightBracket" THEN Failed(SyntaxError)
                 ELSE brackets_loop(Parsed([k |-> "predicate", m_path |-> r.e,
                                            m_pred |-> p.e], Tail(p.rest)))
         IN predicate(expr(Tail(r.rest)))

\* xpath_imp::step
step(ts) ==
    IF lookahead(ts) = "AxisSpec"
    THEN brackets_loop(node_test(Head(ts).v, Tail(ts)))
    ELSE brackets_loop(node_test("child", ts))

\* while (m_lookahead == Token::Slash) of relative_location_path
relative_loop(r) ==
    IF r.exc # NoException \/ lookahead(r.rest) # "Slash" THEN r
    ELSE LET next(p) ==
                 IF p.exc # NoException THEN p
                 ELSE relative_loop(Parsed([k |-> "path", m_lhs |-> r.e, m_rhs |-> p.e],
                                           p.rest))
         IN next(step(Tail(r.rest)))

relative_location_path(ts) == relative_loop(step(ts))

\* xpath_imp::location_path
location_path(ts) ==
    IF lookahead(ts) = "Slash"
    THEN LET absolute(r) ==
                 IF r.exc # NoException THEN r
                 ELSE Parsed([k |-> "path", m_lhs |-> [k |-> "root"], m_rhs |-> r.e], r.rest)
         IN absolute(relative_location_path(Tail(ts)))
    ELSE relative_location_path(ts)

\* xpath_imp::primary_expr
primary_expr(ts) ==
    CASE lookahead(ts) = "Variable" ->
            Parsed([k |-> "variable", m_var |-> Head(ts).v], Tail(ts))
      [] lookahead(ts) = "LeftParenthesis" ->
            LET parenthesized(r) ==
                    IF r.exc # NoException THEN r
                    ELSE IF lookahead(r.rest) # "RightParenthesis" THEN Failed(SyntaxError)
                    ELSE Parsed(r.e, Tail(r.rest))
            IN parenthesized(expr(Tail(ts)))
      [] lookahead(ts) = "Literal" ->
            Parsed([k |-> "literal",
                    m_lit |-> IF Head(ts).v = "" THEN <<>> ELSE <<Head(ts).v>>], Tail(ts))
      [] lookahead(ts) = "Number" ->
            Parsed([k |-> "number", m_number |-> DigitOf(Head(ts).v)], Tail(ts))
      [] lookahead(ts) = "FunctionName" -> function_call(ts)
      [] OTHER -> Failed("invalid primary expression in xpath")

\* The for (;;) of function_call that collects the arguments
arguments_loop(arguments, ts) ==
    LET argument(r) ==
            IF r.exc # NoException THEN r
            ELSE IF lookahead(r.rest) = "Comma"
                 THEN arguments_loop(Append(arguments, r.e), Tail(r.rest))
            ELSE Parsed(Append(arguments, r.e), r.rest)
    IN argument(expr(ts))

\* xpath_imp::function_call, entered with m_lookahead == Token::FunctionName
function_call(ts) ==
    LET function == Head(ts).v
        call(a) ==
            IF a.exc # NoException THEN a
            ELSE IF lookahead(a.rest) # "RightParenthesis" THEN Failed(SyntaxError)
            ELSE IF arity_check(function, Len(a.e)) # NoException
                 THEN Failed(arity_check(function, Len(a.e)))
            ELSE Parsed([k |-> function, m_args |-> a.e], Tail(a.rest))
    IN call(IF lookahead(Tail(ts)) # "LeftParenthesis" THEN Failed(SyntaxError)
            ELSE IF lookahead(Tail(Tail(ts))) # "RightParenthesis"
                 THEN arguments_loop(<<>>, Tail(Tail(ts)))
            ELSE Parsed(<<>>, Tail(Tail(ts))))

\* xpath_imp::filter_expr
filter_expr(ts) == brackets_loop(primary_expr(ts))

\* xpath_imp::path_expr
path_expr(ts) ==
    IF lookahead(ts) \in {"Variable", "LeftParenthesis", "Literal", "Number", "FunctionName"}
    THEN LET relative(r, p) ==
                 IF p.exc # NoException THEN p
                 ELSE Parsed([k |-> "path", m_lhs |-> r.e, m_rhs |-> p.e], p.rest)
             filtered(r) ==
                 IF r.exc = NoException /\ lookahead(r.rest) = "Slash"
                 THEN relative(r, relative_location_path(Tail(r.rest)))
                 ELSE r
         IN filtered(filter_expr(ts))
    ELSE location_path(ts)

\* while (m_lookahead == Token::OperatorUnion) of union_expr
union_loop(r) ==
    IF r.exc # NoException \/ lookahead(r.rest) # "OperatorUnion" THEN r
    ELSE LET next(p) ==
                 IF p.exc # NoException THEN p
                 ELSE union_loop(Parsed([k |-> "union", m_lhs |-> r.e, m_rhs |-> p.e], p.rest))
         IN next(path_expr(Tail(r.rest)))

\* xpath_imp::union_expr, which is what unary_expr returns
union_expr(ts) == union_loop(path_expr(ts))

\* for (;;) of multiplicative_expr
multiplicative_loop(r) ==
    IF r.exc # NoException \/ lookahead(r.rest) # "Asterisk" THEN r
    ELSE LET next(p) ==
                 IF p.exc # NoException THEN p
                 ELSE multiplicative_loop(Parsed([k |-> "multiply", m_lhs |-> r.e,
                                                  m_rhs |-> p.e], p.rest))
         IN next(union_expr(Tail(r.rest)))

\* xpath_imp::multiplicative_expr, which is what additive_expr and
\* relational_expr return
multiplicative_expr(ts) == multiplicative_loop(union_expr(ts))

\* while (m_lookahead == Token::OperatorEqual ...) of equality_expr
equality_loop(r) ==
    IF r.exc # NoException \/ lookahead(r.rest) # "OperatorEqual" THEN r
    ELSE LET next(p) ==
                 IF p.exc # NoException THEN p
                 ELSE equality_loop(Parsed([k |-> "equal", m_lhs |-> r.e, m_rhs |-> p.e], p.rest))
         IN next(multiplicative_expr(Tail(r.rest)))

\* xpath_imp::expr: or_expr and and_expr return what equality_expr returns
expr(ts) == equality_loop(multiplicative_expr(ts))

RECURSIVE parse_loop(_)
\* while (m_lookahead == Token::OperatorUnion) of xpath_imp::parse
parse_loop(r) ==
    IF r.exc # NoException \/ lookahead(r.rest) # "OperatorUnion" THEN r
    ELSE LET next(p) ==
                 IF p.exc # NoException THEN p
                 ELSE parse_loop(Parsed([k |-> "union", m_lhs |-> r.e, m_rhs |-> p.e], p.rest))
         IN next(location_path(Tail(r.rest)))

\* xpath_imp::parse, after preprocess: m_expr, or the exception
parse(ts) ==
    LET complete(r) ==
            IF r.exc # NoException THEN r
            ELSE IF lookahead(r.rest) # "Eof" THEN Failed(SyntaxError)
            ELSE r
    IN complete(parse_loop(location_path(ts)))

-----------------------------------------------------------------------------
(* xpath(path).evaluate<node>(root, ctxt) on the documents built with       *)
(* emplace_back                                                            *)

MaxVariables == 1  \* values a variable of the context is set to

\* The tokens get_next_token makes of the text preprocess leaves
Slash == Tok("Slash", "")
Asterisk == Tok("Asterisk", "")
Name(t) == Tok("Name", DigitChars[t + 1])
AxisSpec(axis) == Tok("AxisSpec", axis)
NodeType(T) == Tok("NodeType", T)
OperatorUnion == Tok("OperatorUnion", "")
OperatorEqual == Tok("OperatorEqual", "")
LeftBracket == Tok("LeftBracket", "")
RightBracket == Tok("RightBracket", "")
LeftParenthesis == Tok("LeftParenthesis", "")
RightParenthesis == Tok("RightParenthesis", "")
Comma == Tok("Comma", "")
Variable(var) == Tok("Variable", var)
Literal(ch) == Tok("Literal", ch)
Number(d) == Tok("Number", DigitChars[d + 1])
FunctionName(function) == Tok("FunctionName", function)

\* "//" is "/descendant-or-self::node()/", ".." is "parent::node()"
AnyDescendant == <<Slash, AxisSpec("descendant-or-self"), NodeType("node"), Slash>>
Parent == <<AxisSpec("parent"), NodeType("node")>>

\* The location paths of the check
LocationPaths ==
    {<<Asterisk>>, <<NodeType("text")>>, <<NodeType("node")>>, Parent,
     AnyDescendant \o <<Asterisk>>, AnyDescendant \o <<NodeType("text")>>}
    \cup {<<Name(a)>> : a \in Tags}
    \cup {<<Name(a), OperatorUnion, Name(b)>> : a, b \in Tags}
    \cup {AnyDescendant \o <<Name(a)>> : a \in Tags}
    \cup {AnyDescendant \o <<Name(a), Slash>> \o Parent : a \in Tags}

\* The predicates of the check: a = b, text() = '1', text() = 1, $v,
\* $v = 1, count(*) = 1, count(//*) = 2, count($v) = 1
Predicates ==
    {<<Name(1), OperatorEqual, Name(MaxTag)>>,
     <<NodeType("text"), OperatorEqual, Literal("1")>>,
     <<NodeType("text"), OperatorEqual, Number(1)>>,
     <<NodeType("text"), OperatorEqual, Number(MaxTag)>>,
     <<Variable("v")>>,
     <<Variable("v"), OperatorEqual, Number(1)>>,
     <<FunctionName("count"), LeftParenthesis, Asterisk, RightParenthesis,
       OperatorEqual, Number(1)>>,
     <<FunctionName("count"), LeftParenthesis>> \o AnyDescendant \o
         <<Asterisk, RightParenthesis, OperatorEqual, Number(2)>>,
     <<FunctionName("count"), LeftParenthesis, Variable("v"), RightParenthesis,
       OperatorEqual, Number(1)>>}

\* The function calls of the check, at the top level: count(//*), count(*)
TopLevelCalls ==
    {<<FunctionName("count"), LeftParenthesis>> \o AnyDescendant \o
         <<Asterisk, RightParenthesis>>,
     <<FunctionName("count"), LeftParenthesis, Asterisk, RightParenthesis>>}

Paths ==
    LocationPaths
    \cup {<<Asterisk, LeftBracket>> \o q \o <<RightBracket>> : q \in Predicates}
    \cup TopLevelCalls

\* context_imp::set
context_set(m_variables, var, value) ==
    IF \E i \in 1..Len(m_variables) : m_variables[i].name = var
    THEN [i \in 1..Len(m_variables) |->
             IF m_variables[i].name = var THEN [name |-> var, value |-> value]
             ELSE m_variables[i]]
    ELSE Append(m_variables, [name |-> var, value |-> value])

\* A view whose destructor clears the list, as ~element_container does
nodes_view_clearing(s, c) == clear(s, Hdr(c))
\* node_list<node>(c), as iterate_child_nodes builds it for the time of its
\* loop: the constructor of basic_node_list sets the parent of the header
\* node of the new object and takes over c's m_header, the destructor is
\* empty; no field of a node of the store is written
nodes_view(s, c) == s

RECURSIVE views_loop(_, _)
views_loop(s, cs) ==
    IF cs = {} THEN s
    ELSE LET c == CHOOSE x \in cs : \A y \in cs : x <= y
         IN views_loop(nodes_view(s, c), cs \ {c})

\* element e(qname): an element that is in no list
Construct(t) ==
    /\ returned = <<>>
    /\ HasFree(Store, 1)
    /\ NoThrow(New(Store, Fresh(Store), "element", t))

\* c.emplace_back(qname) and c.nodes().emplace_back(text)
EmplaceBack(c, k, t) ==
    /\ returned = <<>>
    /\ Emplace(c, Hdr(c), k, t)

\* ctxt.set(name, value), with a double and with a std::string
SetVariable(var, value) ==
    /\ returned = <<>>
    /\ ctxt' = context_set(ctxt, var, value)
    /\ UNCHANGED <<ea, eb, returned, chain, path, m_path, domVars, validatorVars, builderVars>>

\* What xpath(path).evaluate<node>(root, ctxt) leaves, the constructor of
\* xpath included: an exception of parse leaves the context as it is
Evaluated(s, ts, root, m_variables) ==
    LET compiled(m_expr) ==
            IF m_expr.exc # NoException THEN Outcome(Thrown(m_expr.exc), m_variables)
            ELSE xpath_evaluate(s, m_expr.e, root, m_variables)
    IN compiled(parse(ts))

\* xpath(path).evaluate<node>(root, ctxt)
Evaluate(ts, root) ==
    /\ returned = <<>>
    /\ root \in Containers(Store)
    /\ LET r == Evaluated(Store, ts, root, ctxt)
           after == views_loop(Store, Containers(Store))
       IN /\ returned' = <<[path |-> ts, root |-> root, o |-> r.o,
                            variables |-> ctxt]>>
          /\ ctxt' = r.m_variables
          /\ type' = after.type
          /\ tag' = after.tag
          /\ m_parent' = after.parent
          /\ m_next' = after.next
          /\ m_prev' = after.prev
    /\ UNCHANGED <<ea, eb, chain, path, m_path, exc, validatorVars, builderVars>>

XPathNext ==
    \/ \E t \in Tags : Construct(t)
    \/ \E c \in Obj, t \in Tags : EmplaceBack(c, "element", t)
    \/ \E c \in Obj, t \in 0..MaxTag : EmplaceBack(c, "text", t)
    \/ \E d \in 1..MaxVariables : SetVariable("v", Object("number", d))
    \/ \E d \in 1..MaxVariables : SetVariable("v", Object("string", <<DigitChars[d + 1]>>))
    \/ \E ts \in Paths, root \in Obj : Evaluate(ts, root)

SpecXPath == DomInit /\ [][XPathNext]_vars

\* The evaluation returned a node-set
ReturnedNodeSet == returned # <<>> /\ returned[1].o.m_type = "node_set"

\* C11: the node-set a location path or a union evaluates to holds every node
\* at most once, for every document and context node.
C11_NoDuplicateNodes ==
    (ReturnedNodeSet /\ returned[1].path \in LocationPaths) =>
        NoDuplicates(returned[1].o.v)

\* The expression of the path evaluated is a step with one predicate lhs = rhs
\* whose left side is a step, that is, a node-set
ReturnedEquality ==
    /\ ReturnedNodeSet
    /\ parse(returned[1].path).exc = NoException
    /\ parse(returned[1].path).e.k = "predicate"
    /\ parse(returned[1].path).e.m_pred.k = "equal"
    /\ parse(returned[1].path).e.m_pred.m_lhs.k \in {"name_test", "node_type"}

\* '=' of XPath 1.0 on a node-set l and an object r: some node of l has a
\* string-value that equals the string-value of some node of r, the string r
\* or, taken as a number, the number r
AnyPair(s, l, r) ==
    CASE r.m_type = "node_set" ->
            \E i \in 1..Len(l.v), j \in 1..Len(r.v) : StrOf(s, l.v[i]) = StrOf(s, r.v[j])
      [] r.m_type = "string" -> \E i \in 1..Len(l.v) : StrOf(s, l.v[i]) = r.v
      [] r.m_type = "number" ->
            \E i \in 1..Len(l.v) : double_equal(from_chars(StrOf(s, l.v[i])), r.v)

\* C12: lhs = rhs on two node-sets is true iff some node of the one and some
\* node of the other have equal string-values, and on a node-set and a string
\* or number iff some node of the set has a string-value equal to it; so
\* step[lhs = rhs] selects the nodes of step for which that is the case.
C12_EqualAnyPair ==
    ReturnedEquality =>
        LET x == parse(returned[1].path).e
            candidates == evaluate(Store, x.m_path, returned[1].root, <<>>, ctxt).o.v
            side(e, c) == evaluate(Store, e, c, candidates, ctxt).o
        IN returned[1].o.v =
              SelectSeq(candidates,
                        LAMBDA c : AnyPair(Store, side(x.m_pred.m_lhs, c), side(x.m_pred.m_rhs, c)))

\* The variables the expression x refers to
RECURSIVE VariablesOf(_)
VariablesOf(x) ==
    CASE x.k = "variable" -> {x.m_var}
      [] x.k \in {"path", "union", "equal", "multiply"} ->
            VariablesOf(x.m_lhs) \cup VariablesOf(x.m_rhs)
      [] x.k = "predicate" -> VariablesOf(x.m_path) \cup VariablesOf(x.m_pred)
      [] x.k \in {"root", "name_test", "node_type", "literal", "number"} -> {}
      [] OTHER -> UNION {VariablesOf(x.m_args[i]) : i \in 1..Len(x.m_args)}

\* The path evaluated refers to a variable the context had no value for, and
\* the step its predicate belongs to selected a node, so that the variable
\* was evaluated
ReturnedUnknownVariable ==
    /\ returned # <<>>
    /\ parse(returned[1].path).exc = NoException
    /\ VariablesOf(parse(returned[1].path).e) \ keys(returned[1].variables) # {}
    /\ parse(returned[1].path).e.k = "predicate"
    /\ evaluate(Store, parse(returned[1].path).e.m_path, returned[1].root, <<>>, ctxt).o.v # <<>>

\* C13: evaluating an expression that refers to a variable never set on the
\* context raises an exception, and adds no entry for the name to the context.
C13_UnknownVariableRaises ==
    ReturnedUnknownVariable =>
        /\ returned[1].o.m_type = "exception"
        /\ keys(ctxt) = keys(returned[1].variables)

\* The nodes of the document of root that are elements
ElementsOfDocument(s, root) == {n \in Elements(s) : RootOf(s, n) = RootOf(s, root)}

\* C15: a path that is the call count(P) of a location path P compiles and
\* evaluates to the number of nodes P selects; count(//*) on a document is the
\* number of elements of the document.
C15_TopLevelCount ==
    (returned # <<>> /\ returned[1].path \in TopLevelCalls) =>
        LET ts == returned[1].path
            P == SubSeq(ts, 3, Len(ts) - 1)
            selected == xpath_evaluate(Store, parse(P).e, returned[1].root, ctxt).o.v
        IN /\ returned[1].o.m_type = "number"
           /\ returned[1].o.v = Len(selected)
           /\ (Head(P) = Slash /\ returned[1].root = DOC) =>
                 returned[1].o.v = Cardinality(ElementsOfDocument(Store, DOC))

\* The node n of the store as a value of Part 3: the name of tag t is the
\* digit t, an attribute has no value
RECURSIVE ValueOf(_, _)
ValueOf(s, n) ==
    IF s.type[n] = "element"
    THEN [type |-> "element", m_qname |-> TextOfTag(s.tag[n]),
          m_attributes |-> [i \in 1..Len(ListSeq(s, AHdr(n))) |->
                               Attr(TextOfTag(s.tag[ListSeq(s, AHdr(n))[i]]), <<>>)],
          nodes |-> [i \in 1..Len(ListSeq(s, Hdr(n))) |-> ValueOf(s, ListSeq(s, Hdr(n))[i])]]
    ELSE [type |-> s.type[n], m_text |-> TextOfTag(s.tag[n])]

\* The elements that are the root of a tree outside the document
Roots(s) == {n \in Elements(s) : s.parent[n] = NULL}

\* The two objects are the same value: two node-sets of the same size whose
\* nodes are equal one by one, or the same exception
SameValue(s, o1, o2) ==
    /\ o1.m_type = o2.m_type
    /\ IF o1.m_type = "node_set"
       THEN /\ Len(o1.v) = Len(o2.v)
            /\ \A i \in 1..Len(o1.v) :
                  equals(ValueOf(s, o1.v[i]), <<>>, ValueOf(s, o2.v[i]), <<>>)
       ELSE o1.v = o2.v

Moved(pi, a) ==
    CASE a = NULL -> NULL
      [] a \in Pool -> pi[a]
      [] a \in {DOC, TMP} -> a
      [] a \in {Hdr(c) : c \in Pool} -> Hdr(pi[a - (MaxNodes + 2)])
      [] a \in {AHdr(c) : c \in Pool} -> AHdr(pi[a - 2 * (MaxNodes + 2)])
      [] OTHER -> a

\* The same document with its objects at other addresses: the object at
\* Moved(pi, a) holds what the object at a holds in s
Copy(pi, s) ==
    LET from(b) == CHOOSE a \in Addr : Moved(pi, a) = b
    IN [type |-> [b \in Addr |-> s.type[from(b)]],
        tag |-> [b \in Addr |-> s.tag[from(b)]],
        parent |-> [b \in Addr |-> Moved(pi, s.parent[from(b)])],
        next |-> [b \in Addr |-> Moved(pi, s.next[from(b)])],
        prev |-> [b \in Addr |-> Moved(pi, s.prev[from(b)])]]

-----------------------------------------------------------------------------
(* xpath(path) for the paths *[f(1, ..., 1)]: the call of every core        *)
(* function with every number of arguments                                 *)

MaxArguments == 4  \* arguments of one function call

CoreFunctions == DOMAIN kCoreFunctionInfo

RECURSIVE Arguments(_)
Arguments(n) ==
    IF n = 0 THEN <<>>
    ELSE IF n = 1 THEN <<Number(1)>>
    ELSE Arguments(n - 1) \o <<Comma, Number(1)>>

\* The tokens of *[function(1, ..., 1)] with n arguments
Call(function, n) ==
    <<Asterisk, LeftBracket, FunctionName(function), LeftParenthesis>>
        \o Arguments(n) \o <<RightParenthesis, RightBracket>>

CallInit ==
    /\ NoDom
    /\ ea = <<>> /\ eb = <<>> /\ chain = <<>> /\ returned = <<>>
    /\ ctxt = <<>> /\ m_path = <<>>
    /\ NoBuilder
    /\ \E function \in CoreFunctions, n \in 0..MaxArguments : path = Call(function, n)

\* xpath(path): the constructor parses the path
Compile ==
    /\ returned = <<>>
    /\ returned' = <<parse(path)>>
    /\ UNCHANGED <<ea, eb, chain, ctxt, path, m_path, domVars, validatorVars, builderVars>>

SpecCall == CallInit /\ [][Compile]_vars

\* The numbers of arguments a core function takes by the XPath 1.0
\* recommendation, up to MaxArguments; id and comment are left out
Arity ==
    [last |-> {0}, position |-> {0}, true |-> {0}, false |-> {0},
     count |-> {1}, boolean |-> {1}, not |-> {1}, lang |-> {1}, sum |-> {1},
     floor |-> {1}, ceiling |-> {1}, round |-> {1},
     local_name |-> {0, 1}, namespace_uri |-> {0, 1}, name |-> {0, 1},
     string |-> {0, 1}, string_length |-> {0, 1}, normalize_space |-> {0, 1},
     number |-> {0, 1},
     starts_with |-> {2}, contains |-> {2}, substring_before |-> {2},
     substring_after |-> {2}, substring |-> {2, 3}, translate |-> {3},
     concat |-> 2..MaxArguments]

\* C14: compiling raises an exception for every call of a core function with
\* a number of arguments outside the arity of the function.
C14_ArityEnforced ==
    \A function \in DOMAIN Arity, n \in 0..MaxArguments :
        (returned # <<>> /\ path = Call(function, n) /\ n \notin Arity[function]) =>
            returned[1].exc # NoException

-----------------------------------------------------------------------------
(* xpath_imp::preprocess: the expansion of the abbreviations of a path      *)

MaxPath == 4       \* characters of a path

AttributeAxis == <<"a", "t", "t", "r", "i", "b", "u", "t", "e", ":", ":">>
SelfNode == <<"s", "e", "l", "f", ":", ":", "n", "o", "d", "e", "(", ")">>
ParentNode == <<"p", "a", "r", "e", "n", "t", ":", ":", "n", "o", "d", "e", "(", ")">>
DescendantOrSelfNode ==
    <<"/", "d", "e", "s", "c", "e", "n", "d", "a", "n", "t", "-", "o", "r", "-",
      "s", "e", "l", "f", ":", ":", "n", "o", "d", "e", "(", ")", "/">>
Quotes == {"'", "\""}

\* The loop of preprocess from the character at i on, in the state pp with
\* the quoteChar q and what m_path holds so far; "--ch" followed by the "++ch"
\* of the loop leaves i where it is
RECURSIVE preprocess_loop(_, _, _, _, _)
preprocess_loop(chars, i, pp, q, out) ==
    IF i > Len(chars) THEN out
    ELSE LET ch == chars[i]
         IN CASE pp = "pp_Step" ->
                   CASE ch = "@" -> preprocess_loop(chars, i + 1, "pp_Data", q, out \o AttributeAxis)
                     [] ch = "." -> preprocess_loop(chars, i + 1, "pp_Dot", q, out)
                     [] ch = "/" -> preprocess_loop(chars, i + 1, "pp_Slash", q, out)
                     [] ch \in Quotes ->
                           preprocess_loop(chars, i + 1, "pp_String", ch, Append(out, ch))
                     [] OTHER -> preprocess_loop(chars, i + 1, "pp_Data", q, Append(out, ch))
              [] pp = "pp_Data" ->
                   CASE ch = "@" -> preprocess_loop(chars, i + 1, "pp_Data", q, out \o AttributeAxis)
                     [] ch = "/" -> preprocess_loop(chars, i + 1, "pp_Slash", q, out)
                     [] ch = "[" -> preprocess_loop(chars, i + 1, "pp_Step", q, Append(out, ch))
                     [] ch \in Quotes ->
                           preprocess_loop(chars, i + 1, "pp_String", ch, Append(out, ch))
                     [] OTHER -> preprocess_loop(chars, i + 1, "pp_Data", q, Append(out, ch))
              [] pp = "pp_Dot" ->
                   IF ch = "."
                   THEN preprocess_loop(chars, i + 1, "pp_Step", q, out \o ParentNode)
                   ELSE preprocess_loop(chars, i, "pp_Step", q, out \o SelfNode)
              [] pp = "pp_Slash" ->
                   IF ch = "/"
                   THEN preprocess_loop(chars, i + 1, "pp_Step", q, out \o DescendantOrSelfNode)
                   ELSE preprocess_loop(chars, i, "pp_Step", q, Append(out, "/"))
              [] pp = "pp_String" ->
                   preprocess_loop(chars, i + 1, IF ch = q THEN "pp_Data" ELSE "pp_String",
                                   q, Append(out, ch))

\* xpath_imp::preprocess(path): what it leaves in m_path
preprocess(chars) == preprocess_loop(chars, 1, "pp_Step", "", <<>>)

\* The characters of the paths of the check
PathCharacters == {".", "/", "[", "(", ",", "'", "a"}

PreprocessInit ==
    /\ NoDom
    /\ ea = <<>> /\ eb = <<>> /\ chain = <<>> /\ returned = <<>>
    /\ ctxt = <<>> /\ m_path = <<>>
    /\ NoBuilder
    /\ path \in SeqsUpTo(PathCharacters, MaxPath)

\* The call of preprocess in xpath_imp::parse
Preprocess ==
    /\ returned = <<>>
    /\ m_path' = preprocess(path)
    /\ returned' = <<TRUE>>
    /\ UNCHANGED <<ea, eb, chain, ctxt, path, domVars, validatorVars, builderVars>>

SpecPreprocess == PreprocessInit /\ [][Preprocess]_vars

\* The expansion the abbreviations stand for, from the character at i on: q
\* is the quote of the literal the character is in, "" outside a literal;
\* a step may begin at the start of the path and after "/", "[", "(" and ","
RECURSIVE Expansion(_, _, _, _)
Expansion(chars, i, q, stepBegins) ==
    IF i > Len(chars) THEN <<>>
    ELSE LET ch == chars[i]
             twice == i < Len(chars) /\ chars[i + 1] = ch
         IN CASE q # "" ->
                   <<ch>> \o Expansion(chars, i + 1, IF ch = q THEN "" ELSE q, FALSE)
              [] q = "" /\ ch \in Quotes -> <<ch>> \o Expansion(chars, i + 1, ch, FALSE)
              [] q = "" /\ ch = "." /\ stepBegins /\ twice ->
                   ParentNode \o Expansion(chars, i + 2, q, FALSE)
              [] q = "" /\ ch = "." /\ stepBegins /\ ~twice ->
                   SelfNode \o Expansion(chars, i + 1, q, FALSE)
              [] q = "" /\ ch = "/" /\ twice ->
                   DescendantOrSelfNode \o Expansion(chars, i + 2, q, TRUE)
              [] q = "" /\ ch = "@" -> AttributeAxis \o Expansion(chars, i + 1, q, FALSE)
              [] OTHER ->
                   <<ch>> \o Expansion(chars, i + 1, q, ch \in {"/", "[", "(", ","})

\* C18: preprocess replaces every "." that stands for a step and is outside a
\* quoted literal by self::node() and every ".." by parent::node(), wherever
\* a step may begin: at the start of the path, after "/", after "[", after
\* "(" or ",", and as the last character; a literal is copied as it is.
C18_DotsExpanded ==
    returned # <<>> => m_path = Expansion(path, 1, "", TRUE)

-----------------------------------------------------------------------------
(* element::set_content and element::get_content, on the store of Part 1   *)

\* The for loop of set_content with the iterator at n: nn.erase(n) returns
\* the iterator to the node after n, and the ++n of the loop moves on from
\* there; ++ on end() is m_header->next(), the first node of the list
RECURSIVE set_content_loop(_, _, _)
set_content_loop(s, e, n) ==
    IF n = Hdr(e) THEN s
    ELSE IF s.type[n] \in {"text", "cdata"}
         THEN LET erased == node_list_erase_impl(s, e, n).s
              IN set_content_loop(erased, e, erased.next[s.next[n]])
    ELSE set_content_loop(s, e, s.next[n])

\* element::set_content(s) with the text t: the loop, then
\* nn.emplace_back(text(s))
set_content(s, e, t) ==
    LET after == set_content_loop(s, e, s.next[Hdr(e)])
    IN node_list_insert_impl(New(after, Fresh(after), "text", t), e, Hdr(e), Fresh(after))

\* element::get_content(): the text of the text and cdata children
RECURSIVE get_content_loop(_, _)
get_content_loop(s, l) ==
    IF l = <<>> THEN <<>>
    ELSE (IF s.type[Head(l)] \in {"text", "cdata"} THEN TextOfTag(s.tag[Head(l)]) ELSE <<>>)
             \o get_content_loop(s, Tail(l))

get_content(s, e) == get_content_loop(s, ListSeq(s, Hdr(e)))

\* The children of e that are neither text nor cdata
OtherChildren(s, e) ==
    SelectSeq(ListSeq(s, Hdr(e)), LAMBDA n : s.type[n] \notin {"text", "cdata"})

\* e.set_content(s) with the text t
SetContent(e, t) ==
    /\ returned = <<>>
    /\ e \in Elements(Store)
    /\ HasFree(set_content_loop(Store, e, Store.next[Hdr(e)]), 1)
    /\ LET r == set_content(Store, e, t)
       IN /\ type' = r.s.type
          /\ tag' = r.s.tag
          /\ m_parent' = r.s.parent
          /\ m_next' = r.s.next
          /\ m_prev' = r.s.prev
          /\ exc' = r.exc
    /\ returned' = <<[e |-> e, s |-> t, others |-> OtherChildren(Store, e)]>>
    /\ UNCHANGED <<ea, eb, chain, ctxt, path, m_path, validatorVars, builderVars>>

ContentNext ==
    \/ \E c \in Obj, t \in Tags : EmplaceBack(c, "element", t)
    \/ \E c \in Obj, t \in 0..MaxTag : EmplaceBack(c, "text", t)
    \/ \E c \in Obj, t \in 0..MaxTag : EmplaceBack(c, "cdata", t)
    \/ \E c \in Obj, t \in 0..MaxTag : EmplaceBack(c, "comment", t)
    \/ \E e \in Pool, t \in 0..MaxTag : SetContent(e, t)

SpecContent == DomInit /\ [][ContentNext]_vars

\* C19: after e.set_content(s), e has exactly one child of type text, whose
\* text is s, and no child of type cdata; the other children are the ones it
\* had, in the order they had; and so e.get_content() is s.
C19_SetContentOneText ==
    returned # <<>> =>
        LET e == returned[1].e
            kids == ListSeq(Store, Hdr(e))
            texts == SelectSeq(kids, LAMBDA n : Store.type[n] = "text")
        IN /\ Len(texts) = 1
           /\ Store.tag[texts[1]] = returned[1].s
           /\ \A i \in 1..Len(kids) : Store.type[kids[i]] # "cdata"
           /\ OtherChildren(Store, e) = returned[1].others
           /\ get_content(Store, e) = TextOfTag(returned[1].s)

(* fix_namespaces *)

\* A node of the tree e: the element reached from e by the child indexes
\* pth, or, with attribute > 0, that element's attribute of that index
NodeRef(pth, i) == [node |-> pth, attribute |-> i]

RECURSIVE ElementAt(_, _)
ElementAt(e, pth) ==
    IF pth = <<>> THEN e ELSE ElementAt(e.nodes[Head(pth)], Tail(pth))

\* The attribute lists of the element at pth and of its ancestors up to e
RECURSIVE ChainAt(_, _)
ChainAt(e, pth) ==
    IF pth = <<>> THEN <<e.m_attributes>>
    ELSE ChainAt(e.nodes[Head(pth)], Tail(pth)) \o <<e.m_attributes>>

\* n->get_qname(): of an element or an attribute; node::get_qname gives ""
QNameAt(e, n) ==
    LET el == ElementAt(e, n.node)
    IN IF n.attribute > 0 THEN el.m_attributes[n.attribute].m_qname
       ELSE IF el.type = "element" THEN el.m_qname
       ELSE <<>>

\* n->set_qname(prefix, name): name alone when the prefix is empty
RECURSIVE set_qname(_, _, _, _)
set_qname(e, pth, i, qn) ==
    IF pth # <<>>
    THEN [e EXCEPT !.nodes[Head(pth)] = set_qname(@, Tail(pth), i, qn)]
    ELSE IF i > 0 THEN [e EXCEPT !.m_attributes[i].m_qname = qn]
    ELSE [e EXCEPT !.m_qname = qn]

QName(prefix, local) == IF prefix = <<>> THEN local ELSE Prefixed(prefix, local)

\* element::prefix_for_namespace(uri) for the element whose attribute list
\* is Head(ch) and whose ancestors have the lists Tail(ch): the first
\* declaration of that value, its qname past "xmlns:"
RECURSIVE prefix_for_namespace(_, _)
prefix_for_namespace(ch, uri) ==
    IF ch = <<>> THEN [first |-> <<>>, second |-> FALSE]
    ELSE LET attrs == Head(ch)
             hit == {i \in 1..Len(attrs) : is_namespace(attrs[i]) /\ attrs[i].m_value = uri}
         IN IF hit = {} THEN prefix_for_namespace(Tail(ch), uri)
            ELSE LET qn == attrs[CHOOSE i \in hit : \A j \in hit : i <= j].m_qname
                 IN [first |-> IF Len(qn) > 6 THEN SubSeq(qn, 7, Len(qn)) ELSE <<>>,
                     second |-> TRUE]

\* The nodes pushed for the element at pth: its children, then its
\* attributes; the top of the stack is its last member
Pushed(e, pth) ==
    LET el == ElementAt(e, pth)
    IN [k \in 1..Len(el.nodes) |-> NodeRef(Append(pth, k), 0)] \o
       [k \in 1..Len(el.m_attributes) |-> NodeRef(pth, k)]

\* The loop while (not s.empty()) of fix_namespaces: e is the tree, source
\* the attribute lists of source and its ancestors, dest those of dest and
\* its ancestors, mapped the map from prefix to prefix
RECURSIVE fix_namespaces_loop(_, _, _, _, _)
fix_namespaces_loop(s, mapped, e, source, dest) ==
    IF s = <<>> THEN [e |-> e, dest |-> dest]
    ELSE LET n == s[Len(s)]
             popped == SubSeq(s, 1, Len(s) - 1)
             qn == QNameAt(e, n)
             p == get_prefix(qn)
             own == namespace_for_prefix(ChainAt(e, n.node), p)
             ns == IF own = <<>> THEN namespace_for_prefix(source, p) ELSE own
             dp == prefix_for_namespace(dest, ns)
             renamed(to) == set_qname(e, n.node, n.attribute, QName(to, node_name(qn)))
             e1 == IF p = <<>> THEN e
                   ELSE IF p \in DOMAIN mapped
                        THEN IF mapped[p] # p THEN renamed(mapped[p]) ELSE e
                   ELSE IF dp.second THEN renamed(dp.first)
                   ELSE e
             mapped1 == IF p = <<>> \/ p \in DOMAIN mapped THEN mapped
                        ELSE (p :> (IF dp.second THEN dp.first ELSE p)) @@ mapped
             dest1 == IF p # <<>> /\ p \notin DOMAIN mapped /\ ~dp.second
                      THEN [dest EXCEPT ![1] =
                               attribute_set_emplace(@, Attr(Prefixed(xmlns, p), ns))]
                      ELSE dest
             isElement == n.attribute = 0 /\ ElementAt(e, n.node).type = "element"
             s1 == IF isElement THEN popped \o Pushed(e1, n.node) ELSE popped
         IN fix_namespaces_loop(s1, mapped1, e1, source, dest1)

\* fix_namespaces(e, source, dest)
fix_namespaces(e, source, dest) ==
    fix_namespaces_loop(<<NodeRef(<<>>, 0)>>, <<>>, e, source, dest)

MaxDestChain == 2   \* dest with its ancestors

\* The values of the namespace declarations
URIs == {<<"U">>, <<"V">>}

\* The elements moved: a prefixed name, at most one attribute, which has a
\* prefixed name or declares the prefix p, and child elements without
\* attributes or children
FixLeaves ==
    ElementsOver({Prefixed(p, <<"a">>) : p \in Prefixes}, {<<>>}, {<<>>})
FixUniverse ==
    ElementsOver({Prefixed(p, <<"a">>) : p \in Prefixes},
                 AttributeLists({Prefixed(<<"p">>, <<"l">>), Declaration(<<"p">>)}, URIs, 1),
                 SeqsUpTo(FixLeaves, MaxPairKids))

\* ea is the element e, eb its parent source, a root; chain[1] holds the
\* attributes of dest and chain[i + 1] those of the parent of the element of
\* chain[i], the last one a root
FixInit ==
    /\ NoDom
    /\ NoXPath
    /\ NoBuilder
    /\ ea \in FixUniverse
    /\ eb \in ElementsOver({<<"a">>},
                           AttributeLists({Declaration(p) : p \in Prefixes}, URIs, MaxAttrs),
                           {<<>>})
    /\ returned = <<>>
    /\ chain \in [1..MaxDestChain -> AttributeLists({Declaration(<<>>), Declaration(<<"p">>)}, URIs, 1)]

\* fix_namespaces(ea, eb, dest)
FixNamespaces ==
    /\ returned = <<>>
    /\ LET r == fix_namespaces(ea, <<eb.m_attributes>>, chain)
       IN /\ ea' = r.e
          /\ chain' = r.dest
    /\ returned' = <<[e |-> ea, dest |-> chain]>>
    /\ UNCHANGED <<eb, ctxt, path, m_path, domVars, validatorVars, builderVars>>

SpecFixNamespaces == FixInit /\ [][FixNamespaces]_vars

\* The elements of the tree e and their attributes that declare no namespace
RECURSIVE NamedNodes(_, _)
NamedNodes(e, pth) ==
    LET el == ElementAt(e, pth)
    IN {NodeRef(pth, 0)}
       \cup {NodeRef(pth, k) : k \in {j \in 1..Len(el.m_attributes) :
                                          ~is_namespace(el.m_attributes[j])}}
       \cup UNION {NamedNodes(e, Append(pth, k)) : k \in 1..Len(el.nodes)}

\* The URI the prefix of the node n of the tree e denotes below source
DenotedAt(e, n, source) ==
    namespace_for_prefix(ChainAt(e, n.node) \o source, get_prefix(QNameAt(e, n)))

\* C20: after fix_namespaces(e, source, dest), every prefix used by the name
\* of an element or attribute in e's subtree is bound on dest or an ancestor
\* of dest to the URI the node's original prefix denoted in the source tree,
\* and no namespace declaration dest had before the call has another URI.
C20_PrefixesBoundOnDest ==
    returned # <<>> =>
        LET before == returned[1]
            source == <<eb.m_attributes>>
        IN /\ \A n \in NamedNodes(ea, <<>>) :
                  (get_prefix(QNameAt(ea, n)) # <<>> /\ DenotedAt(before.e, n, source) # <<>>) =>
                      namespace_for_prefix(chain, get_prefix(QNameAt(ea, n))) =
                          DenotedAt(before.e, n, source)
           /\ \A d \in Declarations(before.dest[1]) :
                  \E x \in Declarations(chain[1]) :
                      x.m_qname = d.m_qname /\ x.m_value = d.m_value

-----------------------------------------------------------------------------
(* doctype::attribute::validate_value                                      *)

\* is_name_start_char and is_name_char of text.cxx on the codes below 0xC0
is_name_start_char(uc) ==
    uc = 58 \/ (uc >= 65 /\ uc <= 90) \/ uc = 95 \/ (uc >= 97 /\ uc <= 122)
is_name_char(uc) ==
    uc = 45 \/ uc = 46 \/ (uc >= 48 /\ uc <= 57) \/ uc = 183 \/ is_name_start_char(uc)

\* attribute::is_name(s) after trim(s): the loops over the characters from
\* the second one on
RECURSIVE is_name_loop(_, _)
is_name_loop(s, c) ==
    IF c > Len(s) THEN TRUE
    ELSE is_name_char(Ord[s[c]]) /\ is_name_loop(s, c + 1)

\* What is_name, is_names, is_nmtoken and is_nmtokens leave: the result and
\* the string s, which they change
Checked(result, s) == [result |-> result, s |-> s]

\* attribute::is_name
is_name(value) ==
    LET s == trim(value)
    IN IF s # <<>>
       THEN Checked(is_name_start_char(Ord[s[1]]) /\ is_name_loop(s, 2), s)
       ELSE Checked(TRUE, s)

\* The inner loops of is_names: the name characters from c on are copied to
\* t, the white space from c on is passed over
RECURSIVE name_chars_end(_, _)
name_chars_end(s, c) ==
    IF c <= Len(s) /\ is_name_char(Ord[s[c]]) THEN name_chars_end(s, c + 1) ELSE c
RECURSIVE spaces_end(_, _)
spaces_end(s, c) ==
    IF c <= Len(s) /\ isspace(s[c]) THEN spaces_end(s, c + 1) ELSE c

\* while (result and c != s.end()) of is_names, then swap(s, t)
RECURSIVE is_names_loop(_, _, _, _)
is_names_loop(s, c, t, result) ==
    IF ~result \/ c > Len(s) THEN Checked(result, t)
    ELSE LET started == is_name_start_char(Ord[s[c]])
             e == IF started THEN name_chars_end(s, c + 1) ELSE c + 1
             t1 == t \o SubSeq(s, c, e - 1)
         IN IF e > Len(s) THEN Checked(started, t1)
            ELSE is_names_loop(s, spaces_end(s, e + 1), Append(t1, " "), isspace(s[e]))

\* attribute::is_names
is_names(value) ==
    LET s == trim(value)
    IN IF s # <<>> THEN is_names_loop(s, 1, <<>>, TRUE) ELSE Checked(TRUE, s)

\* attribute::is_nmtoken: ++c comes before the first test
is_nmtoken(value) ==
    LET s == trim(value)
    IN Checked(s # <<>> /\ is_name_loop(s, 2), s)

\* The second do-while of is_nmtokens: the characters ' ' from c on
RECURSIVE blanks_end(_, _)
blanks_end(s, c) ==
    IF c <= Len(s) /\ s[c] = " " THEN blanks_end(s, c + 1) ELSE c

\* while (result and c != s.end()) of is_nmtokens, then the swap when result
RECURSIVE is_nmtokens_loop(_, _, _, _)
is_nmtokens_loop(s, c, t, result) ==
    IF ~result \/ c > Len(s) THEN Checked(result, IF result THEN t ELSE s)
    ELSE LET e == name_chars_end(s, c)
             t1 == t \o SubSeq(s, c, e - 1)
         IN IF e = c THEN Checked(FALSE, s)
            ELSE IF e > Len(s) THEN Checked(TRUE, t1)
            ELSE is_nmtokens_loop(s, blanks_end(s, e), Append(t1, " "), blanks_end(s, e) > e)

\* attribute::is_nmtokens
is_nmtokens(value) ==
    LET s == trim(value)
    IN is_nmtokens_loop(s, 1, <<>>, s # <<>>)

\* attribute::is_unparsed_entity(s, l)
is_unparsed_entity(s, l) ==
    LET found == {i \in 1..Len(l) : l[i].name = s}
    IN found # {} /\ ~l[CHOOSE i \in found : \A j \in found : i <= j].parsed

\* s.find(' ', i): the place of the first blank at or after i, 0 for npos
find_blank(s, i) ==
    LET at_ == {j \in i..Len(s) : s[j] = " "}
    IN IF at_ = {} THEN 0 ELSE CHOOSE j \in at_ : \A k \in at_ : j <= k

\* for (;;) of validate_value for ENTITIES over the names of value
RECURSIVE entities_loop(_, _, _, _)
entities_loop(value, i, j, entities) ==
    LET name == SubSeq(value, i, IF j = 0 THEN Len(value) ELSE j - 1)
    IN IF ~is_unparsed_entity(name, entities) THEN FALSE
       ELSE IF j = 0 THEN TRUE
       ELSE entities_loop(value, j + 1, find_blank(value, j + 1), entities)

\* attribute::validate_value(value, entities) of the attribute declaration
\* a: the result and the value it leaves
validate_value(a, value, entities) ==
    LET fixed(r) ==
            Checked(r.result /\ ~(a.m_default = "Fixed" /\ r.s # a.m_default_value), r.s)
        entity(r) == Checked(r.result /\ is_unparsed_entity(r.s, entities), r.s)
        names(r) ==
            Checked(r.result /\ entities_loop(r.s, 1, find_blank(r.s, 1), entities), r.s)
    IN CASE a.m_type = "CDATA" -> fixed(Checked(TRUE, value))
         [] a.m_type = "ENTITY" -> fixed(entity(is_name(value)))
         [] a.m_type \in {"ID", "IDREF"} -> fixed(is_name(value))
         [] a.m_type = "ENTITIES" -> fixed(names(is_names(value)))
         [] a.m_type = "IDREFS" -> fixed(is_names(value))
         [] a.m_type = "NMTOKEN" -> fixed(is_nmtoken(value))
         [] a.m_type = "NMTOKENS" -> fixed(is_nmtokens(value))
         [] a.m_type \in {"Enumerated", "Notation"} ->
               fixed(Checked(trim(value) \in Range(a.m_enum), trim(value)))

MaxValue == 3   \* characters of an attribute value

\* A name-start character, a name character that starts no name, a
\* character of no name, and white space
ValueCharacters == {"a", "1", "!", " "}

AttributeTypes ==
    {"CDATA", "ENTITY", "ID", "IDREF", "ENTITIES", "IDREFS", "NMTOKEN", "NMTOKENS",
     "Enumerated", "Notation"}

\* ea is the attribute declaration, eb the value and the entities
ValidateInit ==
    /\ NoDom
    /\ NoXPath
    /\ NoBuilder
    /\ chain = <<>>
    /\ returned = <<>>
    /\ \E ty \in AttributeTypes, d \in {"None", "Fixed"} :
          ea = [m_type |-> ty, m_default |-> d, m_default_value |-> <<"a">>,
                m_enum |-> <<<<"a">>, <<"1">>>>]
    /\ \E v \in SeqsUpTo(ValueCharacters, MaxValue), parsed \in BOOLEAN :
          eb = [value |-> v, entities |-> <<[name |-> <<"a">>, parsed |-> parsed]>>]

\* ea.validate_value(value, entities)
ValidateValue ==
    /\ returned = <<>>
    /\ LET r == validate_value(ea, eb.value, eb.entities)
       IN /\ returned' = <<[result |-> r.result, value |-> eb.value]>>
          /\ eb' = [eb EXCEPT !.value = r.s]
    /\ UNCHANGED <<ea, chain, ctxt, path, m_path, domVars, validatorVars, builderVars>>

SpecValidate == ValidateInit /\ [][ValidateValue]_vars

\* The tokens of s, which white space separates
RECURSIVE Tokens(_)
Tokens(s) ==
    LET c == spaces_end(s, 1)
        e == CHOOSE k \in c..(Len(s) + 1) :
                /\ k = Len(s) + 1 \/ isspace(s[k])
                /\ \A j \in c..(k - 1) : ~isspace(s[j])
    IN IF c > Len(s) THEN <<>>
       ELSE <<SubSeq(s, c, e - 1)>> \o Tokens(SubSeq(s, e, Len(s)))

\* A Name: one name-start character, then name characters; a Nmtoken: one
\* name character or more
IsName(s) ==
    /\ s # <<>>
    /\ is_name_start_char(Ord[s[1]])
    /\ \A i \in 2..Len(s) : is_name_char(Ord[s[i]])
IsNmtoken(s) == s # <<>> /\ \A i \in 1..Len(s) : is_name_char(Ord[s[i]])

\* The tokens of l with single spaces between them
RECURSIVE Joined(_)
Joined(l) ==
    IF l = <<>> THEN <<>>
    ELSE IF Len(l) = 1 THEN l[1]
    ELSE l[1] \o <<" ">> \o Joined(Tail(l))

\* C21: validate_value returns true only if the value satisfies the lexical
\* rule of the declared type: for ID and IDREF the trimmed value is a Name,
\* for NMTOKEN a Nmtoken; for IDREFS and NMTOKENS every token is one and the
\* value is rewritten with single spaces between the tokens.
C21_ValidatedValueIsLexical ==
    (returned # <<>> /\ returned[1].result) =>
        LET v == returned[1].value
        IN CASE ea.m_type \in {"ID", "IDREF"} -> IsName(trim(v))
             [] ea.m_type = "NMTOKEN" -> IsNmtoken(trim(v))
             [] ea.m_type = "IDREFS" ->
                   /\ \A i \in 1..Len(Tokens(v)) : IsName(Tokens(v)[i])
                   /\ eb.value = Joined(Tokens(v))
             [] ea.m_type = "NMTOKENS" ->
                   /\ \A i \in 1..Len(Tokens(v)) : IsNmtoken(Tokens(v)[i])
                   /\ eb.value = Joined(Tokens(v))
             [] OTHER -> TRUE

-----------------------------------------------------------------------------
(* text.cxx: pop_front_char, and write_string of node.cxx                  *)
(*                                                                         *)
(* A std::string is the sequence of its bytes, numbers below 256; an       *)
(* iterator is an index into it, end() the index past the last byte.       *)

InvalidUtf8 == "Invalid utf-8"

\* What pop_front_char leaves: the code point returned, the iterator ptr,
\* and the exception thrown
Popped(c, ptr, what) == [c |-> c, ptr |-> ptr, exc |-> what]

\* (ch & 0x0c0) != 0x080
NoContinuation(ch) == ch \div 64 # 2

\* pop_front_char(ptr, end) on the string s
pop_front_char(s, ptr) ==
    LET end == Len(s) + 1
        result == s[ptr]
    IN IF result <= 127 THEN Popped(result, ptr + 1, NoException)
       ELSE IF result \div 32 = 6
            THEN IF ptr + 1 >= end THEN Popped(0, ptr + 1, InvalidUtf8)
                 ELSE IF NoContinuation(s[ptr + 1]) THEN Popped(0, ptr + 2, InvalidUtf8)
                 ELSE Popped((result % 32) * 64 + (s[ptr + 1] % 64), ptr + 2, NoException)
       ELSE IF result \div 16 = 14
            THEN IF ptr + 2 >= end THEN Popped(0, ptr + 1, InvalidUtf8)
                 ELSE IF NoContinuation(s[ptr + 1]) \/ NoContinuation(s[ptr + 2])
                      THEN Popped(0, ptr + 3, InvalidUtf8)
                 ELSE Popped((result % 16) * 4096 + (s[ptr + 1] % 64) * 64 + (s[ptr + 2] % 64),
                             ptr + 3, NoException)
       ELSE IF result \div 8 = 30
            THEN IF ptr + 3 >= end THEN Popped(0, ptr + 1, InvalidUtf8)
                 ELSE IF \E i \in 1..3 : NoContinuation(s[ptr + i])
                      THEN Popped(0, ptr + 4, InvalidUtf8)
                 ELSE Popped((result % 8) * 262144 + (s[ptr + 1] % 64) * 4096
                                 + (s[ptr + 2] % 64) * 64 + (s[ptr + 3] % 64),
                             ptr + 4, NoException)
       ELSE Popped(result, ptr + 1, NoException)

MaxBytes == 4   \* bytes of a string handed to pop_front_char

\* An ASCII byte, a continuation byte, the lead bytes of a sequence of two,
\* three and four bytes, and a byte that is no lead byte
SampleBytes == {65, 128, 195, 226, 240, 248}

\* ea is the string; the iterator is at its begin
PopFrontInit ==
    /\ NoDom
    /\ NoXPath
    /\ NoBuilder
    /\ chain = <<>>
    /\ eb = <<>>
    /\ returned = <<>>
    /\ ea \in SeqsUpTo(SampleBytes, MaxBytes) \ {<<>>}

\* pop_front_char(ptr, end) with ptr = ea.begin()
PopFrontChar ==
    /\ returned = <<>>
    /\ returned' = <<pop_front_char(ea, 1)>>
    /\ UNCHANGED <<ea, eb, chain, ctxt, path, m_path, domVars, validatorVars, builderVars>>

SpecPopFront == PopFrontInit /\ [][PopFrontChar]_vars

\* The number of bytes the lead byte b announces, 0 for a byte that is no
\* lead byte
EncodedLength(b) ==
    IF b <= 127 THEN 1
    ELSE IF b \div 32 = 6 THEN 2
    ELSE IF b \div 16 = 14 THEN 3
    ELSE IF b \div 8 = 30 THEN 4
    ELSE 0

\* s begins with a lead byte that is followed by the continuation bytes it
\* announces
BeginsWithEncoding(s) ==
    /\ EncodedLength(s[1]) # 0
    /\ EncodedLength(s[1]) <= Len(s)
    /\ \A i \in 2..EncodedLength(s[1]) : ~NoContinuation(s[i])

\* The code point of the encoding s begins with
RECURSIVE Continued(_, _, _)
Continued(s, i, n) == IF i > n THEN 0 ELSE (s[i] % 64) * (64 ^ (n - i)) + Continued(s, i + 1, n)
EncodedCodePoint(s) ==
    LET n == EncodedLength(s[1])
    IN IF n = 1 THEN s[1]
       ELSE (s[1] % (2 ^ (7 - n))) * (64 ^ (n - 1)) + Continued(s, 2, n)

\* C23: pop_front_char raises an error for every byte sequence that does not
\* begin with a valid UTF-8 encoding (a continuation byte or a byte 0xF8-0xFF
\* in lead position, a truncated sequence, a lead byte followed by a byte
\* that is no continuation byte); for a valid encoding it returns the code
\* point and advances the cursor by the encoded length.
C23_PopFrontCharDecodesOrThrows ==
    returned # <<>> =>
        IF BeginsWithEncoding(ea)
        THEN /\ returned[1].exc = NoException
             /\ returned[1].c = EncodedCodePoint(ea)
             /\ returned[1].ptr = 1 + EncodedLength(ea[1])
        ELSE returned[1].exc = InvalidUtf8

\* is_valid_xml_1_0_char and is_valid_xml_1_1_char
is_valid_xml_1_0_char(uc) ==
    \/ uc = 9 \/ uc = 10 \/ uc = 13
    \/ (uc >= 32 /\ uc <= 55295)
    \/ (uc >= 57344 /\ uc <= 65533)
    \/ (uc >= 65536 /\ uc <= 1114111)
is_valid_xml_1_1_char(uc) ==
    \/ uc = 9 \/ uc = 10 \/ uc = 13
    \/ (uc >= 32 /\ uc < 127)
    \/ uc = 133
    \/ (uc >= 160 /\ uc <= 55295)
    \/ (uc >= 57344 /\ uc <= 65533)
    \/ (uc >= 65536 /\ uc <= 1114111)

\* The bytes operator<< writes for an int
RECURSIVE DecimalBytes(_)
DecimalBytes(n) ==
    IF n < 10 THEN <<48 + n>> ELSE Append(DecimalBytes(n \div 10), 48 + (n % 10))

\* The bytes of "&amp;", "&lt;", "&gt;", "&quot;" and of "&#N;"
Amp == <<38, 97, 109, 112, 59>>
Lt == <<38, 108, 116, 59>>
Gt == <<38, 103, 116, 59>>
Quot == <<38, 113, 117, 111, 116, 59>>
NumericReference(n) == <<38, 35>> \o DecimalBytes(n) \o <<59>>

\* What write_string leaves: the bytes written to os and the exception
Written(os, what) == [os |-> os, exc |-> what]

\* while (sp < se) of write_string: f holds the arguments escape_whitespace,
\* escape_quot, trim and version
RECURSIVE write_string_loop(_, _, _, _, _)
write_string_loop(s, sp, os, last_is_space, f) ==
    IF sp > Len(s) THEN Written(os, NoException)
    ELSE LET written(p) ==
                 LET c == p.c
                     raw == SubSeq(s, sp, p.ptr - 1)
                     next(out, space) == write_string_loop(s, p.ptr, os \o out, space, f)
                 IN IF p.exc # NoException THEN Written(os, p.exc)
                    ELSE CASE c = 38 -> next(Amp, FALSE)
                           [] c = 60 -> next(Lt, FALSE)
                           [] c = 62 -> next(Gt, FALSE)
                           [] c = 34 -> next(IF f.escape_quot THEN Quot ELSE <<c>>, FALSE)
                           [] c = 10 ->
                                 next(IF f.escape_whitespace THEN NumericReference(10)
                                      ELSE <<c>>, TRUE)
                           [] c = 13 ->
                                 next(IF f.escape_whitespace THEN NumericReference(13)
                                      ELSE <<c>>, FALSE)
                           [] c = 9 ->
                                 next(IF f.escape_whitespace THEN NumericReference(9)
                                      ELSE <<c>>, FALSE)
                           [] c = 32 ->
                                 next(IF ~f.trim \/ ~last_is_space THEN <<32>> ELSE <<>>, TRUE)
                           [] c = 0 -> Written(os, "Invalid null character in XML content")
                           [] OTHER ->
                                 IF c >= 160 \/ (IF f.version = "1.0"
                                                 THEN is_valid_xml_1_0_char(c)
                                                 ELSE is_valid_xml_1_1_char(c))
                                 THEN next(raw, FALSE)
                                 ELSE next(NumericReference(c), FALSE)
         IN written(pop_front_char(s, sp))

\* write_string(os, s, escape_whitespace, escape_quot, trim, version)
write_string(s, f) == write_string_loop(s, 1, <<>>, FALSE, f)

MaxChars == 2   \* characters of a string handed to write_string

\* The UTF-8 encoding of the code point c
Utf8(c) ==
    IF c < 128 THEN <<c>>
    ELSE IF c < 2048 THEN <<192 + (c \div 64), 128 + (c % 64)>>
    ELSE IF c < 65536 THEN <<224 + (c \div 4096), 128 + ((c \div 64) % 64), 128 + (c % 64)>>
    ELSE <<240 + (c \div 262144), 128 + ((c \div 4096) % 64), 128 + ((c \div 64) % 64),
           128 + (c % 64)>>

RECURSIVE Utf8String(_)
Utf8String(cs) == IF cs = <<>> THEN <<>> ELSE Utf8(Head(cs)) \o Utf8String(Tail(cs))

\* NUL, the characters write_string has a case for, a control character, a
\* letter, DEL, NEL, a C1 control, a Latin-1 letter, U+FFFE and U+10000
SampleCharacters == {0, 38, 60, 62, 34, 10, 13, 9, 32, 1, 65, 127, 133, 159, 233, 65534, 65536}

\* ea holds the arguments of write_string
WriteInit ==
    /\ NoDom
    /\ NoXPath
    /\ NoBuilder
    /\ chain = <<>>
    /\ eb = <<>>
    /\ returned = <<>>
    /\ \E cs \in SeqsUpTo(SampleCharacters, MaxChars), ew, eq, tr \in BOOLEAN,
          v \in {"1.0", "1.1"} :
          ea = [s |-> Utf8String(cs), escape_whitespace |-> ew, escape_quot |-> eq,
                trim |-> tr, version |-> v]

\* write_string(os, ea.s, ...) on an empty stream
WriteString ==
    /\ returned = <<>>
    /\ returned' = <<write_string(ea.s, ea)>>
    /\ UNCHANGED <<ea, eb, chain, ctxt, path, m_path, domVars, validatorVars, builderVars>>

SpecWrite == WriteInit /\ [][WriteString]_vars

\* The code points of the UTF-8 string s from ptr on
RECURSIVE CodePoints(_, _)
CodePoints(s, ptr) ==
    IF ptr > Len(s) THEN <<>>
    ELSE <<EncodedCodePoint(SubSeq(s, ptr, Len(s)))>> \o CodePoints(s, ptr + EncodedLength(s[ptr]))

\* An entity reference or a numeric character reference begins at os[i]
ReferenceAt(os, i) ==
    \E j \in (i + 1)..Len(os) :
        /\ os[j] = 59
        /\ \/ SubSeq(os, i, j) \in {Amp, Lt, Gt, Quot}
           \/ /\ j > i + 2
              /\ os[i + 1] = 35
              /\ \A k \in (i + 2)..(j - 1) : os[k] >= 48 /\ os[k] <= 57

\* C22: for a NUL-free valid UTF-8 string and both versions, the text
\* write_string emits has '&' only as the first character of an entity or
\* numeric character reference, no raw '<', no raw '"' when an attribute
\* value is written, and no raw character outside the valid-character range
\* of the version.
C22_WrittenTextIsEscaped ==
    (returned # <<>> /\ 0 \notin Range(ea.s)) =>
        LET os == returned[1].os
        IN /\ returned[1].exc = NoException
           /\ \A i \in 1..Len(os) : os[i] = 38 => ReferenceAt(os, i)
           /\ 60 \notin Range(os)
           /\ ea.escape_quot => 34 \notin Range(os)
           /\ \A c \in Range(CodePoints(os, 1)) :
                  IF ea.version = "1.0" THEN is_valid_xml_1_0_char(c)
                  ELSE is_valid_xml_1_1_char(c)

-----------------------------------------------------------------------------
(* The handlers of document (document.cxx), which the parser calls with    *)
(* its events, and the part of document::write that depends on them.       *)
(*                                                                         *)
(* document::parse sets m_cur = this before the first event.  A text node  *)
(* holds the digits of the character data it was given, as a number: 0 is  *)
(* the empty text, 12 the text "12".                                        *)

MaxNotations == 3   \* notation declarations of one document

\* An event of the parser, as the handler gets it
Event(e, name, data) == [event |-> e, name |-> name, data |-> data]

\* m_cur = this, as document::parse leaves it before the first event
ParseInit(preserve) ==
    /\ EmptyDocument
    /\ NoValidator
    /\ ea = <<>> /\ eb = <<>> /\ returned = <<>> /\ chain = <<>>
    /\ NoXPath
    /\ m_cur = DOC
    /\ m_cdata = NULL
    /\ m_preserve_cdata = preserve
    /\ m_notations = <<>>
    /\ m_root_size_at_first_notation = 0
    /\ events = <<>>

\* m_notations.push_back(n)
notations_push_back(l, n) == Append(l, n)
\* find_if(... nt.m_name >= name) and m_notations.insert(i, n)
notations_insert(l, n) ==
    LET AtLeast == {i \in 1..Len(l) : ~string_less(l[i].m_name, n.m_name)}
        i == IF AtLeast = {} THEN Len(l) + 1 ELSE CHOOSE k \in AtLeast : \A j \in AtLeast : k <= j
    IN SubSeq(l, 1, i - 1) \o <<n>> \o SubSeq(l, i, Len(l))

\* document::NotationDeclHandler(name, sysid, pubid)
NotationDeclHandler(name, sysid, pubid) ==
    /\ returned = <<>>
    /\ Len(m_notations) < MaxNotations
    /\ m_root_size_at_first_notation' =
          IF m_notations = <<>> THEN Len(ListSeq(Store, Hdr(DOC)))
          ELSE m_root_size_at_first_notation
    /\ m_notations' = notations_insert(m_notations,
                          [m_name |-> name, m_sysid |-> sysid, m_pubid |-> pubid])
    /\ events' = Append(events, Event("notation_decl", name, <<sysid, pubid>>))
    /\ UNCHANGED <<m_cur, m_cdata, m_preserve_cdata, domVars, validatorVars, valueVars, chain>>

\* The for loop of document::write over m_notations: one line for each
\* notation, made of the pieces written to os
write_notation(n) ==
    <<"<!NOTATION ", n.m_name>> \o
    (IF n.m_pubid # <<>>
     THEN <<" PUBLIC '", n.m_pubid, "'">> \o
          (IF n.m_sysid # <<>> THEN <<" '", n.m_sysid, "'">> ELSE <<>>)
     ELSE <<" SYSTEM '", n.m_sysid, "'">>) \o
    <<">\n">>
write_notations(l) == [i \in 1..Len(l) |-> write_notation(l[i])]

\* document::write: the internal subset of the DOCTYPE
WriteNotations ==
    /\ returned = <<>>
    /\ m_notations # <<>>
    /\ returned' = <<write_notations(m_notations)>>
    /\ UNCHANGED <<ea, eb, chain, ctxt, path, m_path, domVars, validatorVars, builderVars>>

\* document::CommentHandler(s) and document::ProcessingInstructionHandler:
\* nodes().emplace_back on m_cur, which is the document when m_cur == this
MiscHandler(k) ==
    /\ returned = <<>>
    /\ HasFree(Store, 1)
    /\ LET n == Fresh(Store)
           r == node_list_insert_impl(New(Store, n, k, 0), m_cur, Hdr(m_cur), n)
       IN /\ type' = r.s.type
          /\ tag' = r.s.tag
          /\ m_parent' = r.s.parent
          /\ m_next' = r.s.next
          /\ m_prev' = r.s.prev
          /\ exc' = r.exc
    /\ events' = Append(events, Event(k, <<>>, <<>>))
    /\ UNCHANGED <<m_cur, m_cdata, m_preserve_cdata, m_notations,
                   m_root_size_at_first_notation, validatorVars, valueVars, chain>>

NotationNames == {<<"a">>, <<"a", "l">>, <<"l">>}
\* The system and public identifiers of a notation: one of them or both
ExternalIds == {<<<<"s">>, <<>>>>, <<<<>>, <<"p">>>>, <<<<"s">>, <<"p">>>>}

NotationNext ==
    \/ \E name \in NotationNames, id \in ExternalIds :
          NotationDeclHandler(name, id[1], id[2])
    \/ MiscHandler("comment")
    \/ WriteNotations

SpecNotation == ParseInit(FALSE) /\ [][NotationNext]_vars

\* The notation declaration events received, in the order of their arrival
NotationEvents == SelectSeq(events, LAMBDA e : e.event = "notation_decl")

\* How often the notation of the event e is in the list l
Occurrences(l, e) ==
    Cardinality({i \in 1..Len(l) :
                    /\ l[i].m_name = e.name
                    /\ l[i].m_sysid = e.data[1]
                    /\ l[i].m_pubid = e.data[2]})

\* C24: after any sequence of notation declaration events the notation list
\* is in non-decreasing lexicographic order by name and holds one entry for
\* each event, and the internal subset is written in that order.
C24_NotationsSorted ==
    /\ \A i \in 1..(Len(m_notations) - 1) :
          ~string_less(m_notations[i + 1].m_name, m_notations[i].m_name)
    /\ Len(m_notations) = Len(NotationEvents)
    /\ \A k \in 1..Len(NotationEvents) :
          Occurrences(m_notations, NotationEvents[k]) =
             Cardinality({j \in 1..Len(NotationEvents) : NotationEvents[j] = NotationEvents[k]})
    /\ returned # <<>> =>
          /\ Len(returned[1]) = Len(m_notations)
          /\ \A i \in 1..Len(m_notations) : returned[1][i][2] = m_notations[i].m_name

\* Three notations were declared with their names in descending order, one
\* name twice, and the internal subset has been written
C24_Witness ==
    /\ returned # <<>>
    /\ Len(NotationEvents) = 3
    /\ NotationEvents[1].name = <<"l">>
    /\ NotationEvents[2].name = <<"a", "l">>
    /\ NotationEvents[3].name = <<"a">>
    /\ returned[1][1][2] = <<"a">>
    /\ returned[1][3][2] = <<"l">>

-----------------------------------------------------------------------------
(* validator::done on sequences *)

\* The content spec is a sequence of element names, each required once
IsSeqOfElements(cs) ==
    cs.k = "seq" /\ \A i \in 1..Len(cs.m_allowed) : cs.m_allowed[i].k = "element"

\* The names of such a sequence, in order
SeqNames(cs) == [i \in 1..Len(cs.m_allowed) |-> cs.m_allowed[i].m_name]

\* C25: for a content spec (e1, ..., en) of n >= 2 required element names, a
\* validator fed the names in order reports done() == false after every
\* proper prefix and done() == true once all n names are accepted; and for
\* every content spec done() is true after a sequence of accepted names only
\* if that sequence is a complete match of the content spec.
C25_DoneOnlyWhenComplete ==
    (content # <<>> /\ accepted) =>
        /\ IsSeqOfElements(content) =>
              /\ (Len(fed) < Len(content.m_allowed) /\ fed = SubSeq(SeqNames(content), 1, Len(fed)))
                    => ~m_done
              /\ fed = SeqNames(content) => m_done
        /\ m_done => Matches(content, fed)

-----------------------------------------------------------------------------
(* The handlers of document that build the tree.  The events carry no      *)
(* namespace URI, no namespace declarations and no attributes, so that     *)
(* StartElementHandler is its call of emplace_back; they arrive as a       *)
(* parser sends them: properly nested, and inside a CDATA section nothing  *)
(* but character data.                                                     *)

MaxEvents == 7      \* events of one parse

\* The store is s, the exception exc is e, the rest of the DOM is as it was
Stored(s, e) ==
    /\ type' = s.type
    /\ tag' = s.tag
    /\ m_parent' = s.parent
    /\ m_next' = s.next
    /\ m_prev' = s.prev
    /\ exc' = e

\* node_list<T>::emplace_back(args...) on container c: n is the new node
emplace_back(s, c, n) == node_list_insert_impl(s, c, Hdr(c), n)

\* The insertion point stays where it is
no_parent(s, n) == n
\* node::parent()
parent(s, n) == s.parent[n]

\* text::append and cdata::append: the text t followed by the digit d
append(t, d) == t * 10 + d

\* The data is appended to the last child node of e, text or CDATA
add_text_to_last(s, e, d) ==
    LET nn_back == prev_end(s, e, "node")
    IN IF s.type[nn_back] \in {"text", "cdata"}
       THEN [s |-> [s EXCEPT !.tag[nn_back] = append(s.tag[nn_back], d)],
             exc |-> NoException]
       ELSE emplace_back(New(s, Fresh(s), "text", d), e, Fresh(s))
\* element::add_text(s)
add_text(s, e, d) ==
    LET nn_back == prev_end(s, e, "node")
    IN IF s.type[nn_back] = "text"
       THEN [s |-> [s EXCEPT !.tag[nn_back] = append(s.tag[nn_back], d)],
             exc |-> NoException]
       ELSE emplace_back(New(s, Fresh(s), "text", d), e, Fresh(s))

\* document::StartElementHandler(name, uri, atts) with an empty uri, no atts
\* and m_namespaces empty.  m_cur is an element_container *, and the
\* emplace_back reached through the cast to element * is the member of
\* node_list<element>, a base of element_container, whatever m_cur points to.
StartElementHandler(t) ==
    /\ exc = NoException
    /\ Len(events) < MaxEvents
    /\ HasFree(Store, 1)
    /\ LET n == Fresh(Store)
           r == emplace_back(New(Store, n, "element", t), m_cur, n)
       IN /\ Stored(r.s, r.exc)
          /\ m_cur' = n
          /\ events' = Append(events, Event("start_element", t, <<n>>))
    /\ UNCHANGED <<m_cdata, m_preserve_cdata, m_notations,
                   m_root_size_at_first_notation, validatorVars, valueVars, chain>>

\* document::EndElementHandler
EndElementHandler ==
    /\ exc = NoException
    /\ Len(events) < MaxEvents
    /\ IF m_cdata # NULL
       THEN /\ exc' = "CDATA section not closed"
            /\ UNCHANGED <<type, tag, m_parent, m_next, m_prev, m_cur>>
       ELSE /\ m_cur' = parent(Store, m_cur)
            /\ UNCHANGED domVars
    /\ events' = Append(events, Event("end_element", 0, <<>>))
    /\ UNCHANGED <<m_cdata, m_preserve_cdata, m_notations,
                   m_root_size_at_first_notation, validatorVars, valueVars, chain>>

\* document::CharacterDataHandler(data)
CharacterDataHandler(d) ==
    /\ exc = NoException
    /\ Len(events) < MaxEvents
    /\ IF m_cdata # NULL
       THEN Stored([Store EXCEPT !.tag[m_cdata] = append(Store.tag[m_cdata], d)],
                   NoException)
       ELSE IF m_cur # DOC
       THEN /\ Store.type[prev_end(Store, m_cur, "node")] # "text" => HasFree(Store, 1)
            /\ LET r == add_text(Store, m_cur, d) IN Stored(r.s, r.exc)
       ELSE UNCHANGED domVars
    /\ events' = Append(events, Event("character_data", 0, <<d>>))
    /\ UNCHANGED <<m_cur, m_cdata, m_preserve_cdata, m_notations,
                   m_root_size_at_first_notation, validatorVars, valueVars, chain>>

\* document::StartCdataSectionHandler; document::parse binds it only if
\* m_preserve_cdata is set
StartCdataSectionHandler ==
    /\ exc = NoException
    /\ Len(events) < MaxEvents
    /\ m_preserve_cdata
    /\ HasFree(Store, 1)
    /\ LET n == Fresh(Store)
           r == emplace_back(New(Store, n, "cdata", 0), m_cur, n)
       IN /\ Stored(r.s, r.exc)
          /\ m_cdata' = n
          /\ events' = Append(events, Event("start_cdata_section", 0, <<n>>))
    /\ UNCHANGED <<m_cur, m_preserve_cdata, m_notations,
                   m_root_size_at_first_notation, validatorVars, valueVars, chain>>

\* document::EndCdataSectionHandler
EndCdataSectionHandler ==
    /\ exc = NoException
    /\ Len(events) < MaxEvents
    /\ m_preserve_cdata
    /\ m_cdata' = NULL
    /\ events' = Append(events, Event("end_cdata_section", 0, <<>>))
    /\ UNCHANGED <<m_cur, m_preserve_cdata, m_notations,
                   m_root_size_at_first_notation, domVars, validatorVars, valueVars, chain>>

RECURSIVE OpenElements(_)
\* The elements whose start_element is not yet followed by its end_element,
\* outermost first, after the events evs
OpenElements(evs) ==
    IF evs = <<>> THEN <<>>
    ELSE LET before == OpenElements(SubSeq(evs, 1, Len(evs) - 1))
             e == evs[Len(evs)]
         IN IF e.event = "start_element" THEN Append(before, e.data[1])
            ELSE IF e.event = "end_element" THEN SubSeq(before, 1, Len(before) - 1)
            ELSE before

\* The innermost element still open after the events evs, or the document
InsertionPoint(evs) ==
    IF OpenElements(evs) = <<>> THEN DOC
    ELSE OpenElements(evs)[Len(OpenElements(evs))]

RECURSIVE OpenCData(_)
\* The node of the CDATA section that is open after the events evs, or NULL
OpenCData(evs) ==
    IF evs = <<>> THEN NULL
    ELSE LET e == evs[Len(evs)]
         IN IF e.event = "start_cdata_section" THEN e.data[1]
            ELSE IF e.event = "end_cdata_section" THEN NULL
            ELSE OpenCData(SubSeq(evs, 1, Len(evs) - 1))

CharacterData == {1, 2}

\* The events a parser can send next
BuilderNext ==
    \/ \E t \in Tags : OpenCData(events) = NULL /\ StartElementHandler(t)
    \/ OpenCData(events) = NULL /\ OpenElements(events) # <<>> /\ EndElementHandler
    \/ \E d \in CharacterData : CharacterDataHandler(d)
    \/ \E k \in {"comment", "processing_instruction"} :
          OpenCData(events) = NULL /\ Len(events) < MaxEvents /\ MiscHandler(k)
    \/ OpenCData(events) = NULL /\ OpenElements(events) # <<>> /\ StartCdataSectionHandler
    \/ OpenCData(events) # NULL /\ EndCdataSectionHandler

BuilderInit == \E preserve \in BOOLEAN : ParseInit(preserve)

SpecBuilder == BuilderInit /\ [][BuilderNext]_vars

\* The container c has the same child nodes before and after the step
SameChildren(c) == ListSeq(Store', Hdr(c)) = ListSeq(Store, Hdr(c))

\* Only the text of node n changed in the step: it got the digit d appended
OnlyAppended(n, d) ==
    /\ tag' = [tag EXCEPT ![n] = tag[n] * 10 + d]
    /\ UNCHANGED <<type, m_parent, m_next, m_prev>>

\* C26: character data received between start_cdata_section and the matching
\* end_cdata_section is appended to the CDATA node created at the start event
\* and creates or modifies no text node; character data received inside an
\* element outside a CDATA section extends the last child of the insertion
\* point if that is a text node and otherwise appends one new text node; with
\* preserve_cdata unset no CDATA node is ever created.
C26_CharacterDataGoesToTextOrCData ==
    [][/\ (events' # events /\ events'[Len(events')].event = "character_data") =>
            LET d == events'[Len(events')].data[1]
                cd == OpenCData(events)
                cur == InsertionPoint(events)
                kids == ListSeq(Store, Hdr(cur))
            IN IF cd # NULL
               THEN type[cd] = "cdata" /\ OnlyAppended(cd, d)
               ELSE IF cur = DOC THEN TRUE
               ELSE IF kids # <<>> /\ type[kids[Len(kids)]] = "text"
               THEN OnlyAppended(kids[Len(kids)], d)
               ELSE \E n \in Pool :
                       /\ type[n] = "free"
                       /\ type' = [type EXCEPT ![n] = "text"]
                       /\ tag' = [tag EXCEPT ![n] = d]
                       /\ m_parent'[n] = cur
                       /\ ListSeq(Store', Hdr(cur)) = Append(kids, n)
                       /\ \A c \in Containers(Store) \ {cur} : SameChildren(c)
       /\ ~m_preserve_cdata => \A n \in Addr : type'[n] # "cdata"
      ]_vars

\* An element holds a CDATA node with the text "12", received as two pieces,
\* followed by a text node that was extended once
C26_Witness ==
    \E e \in Elements(Store) :
       LET kids == ListSeq(Store, Hdr(e))
       IN /\ Len(kids) = 2
          /\ type[kids[1]] = "cdata" /\ tag[kids[1]] = 12
          /\ type[kids[2]] = "text" /\ tag[kids[2]] = 21
          /\ m_cdata = NULL

\* C28: for every well-nested sequence of start_element and end_element
\* events, with character data, comments and processing instructions in
\* between, the insertion point after the last end_element is the document
\* again, and the parent of every element created is the element whose
\* start_element was the innermost one still open when it was created, the
\* document for the outermost element.
C28_ParentIsInnermostOpen ==
    /\ \A k \in 1..Len(events) :
          events[k].event = "start_element" =>
             /\ type[events[k].data[1]] = "element"
             /\ m_parent[events[k].data[1]] = InsertionPoint(SubSeq(events, 1, k - 1))
    /\ OpenElements(events) = <<>> => m_cur = DOC

\* Two nested elements and a comment in the inner one were built and both
\* elements are closed again
C28_Witness ==
    /\ Len(events) = 5
    /\ events[1].event = "start_element"
    /\ events[2].event = "start_element"
    /\ events[3].event = "comment"
    /\ events[4].event = "end_element"
    /\ events[5].event = "end_element"
    /\ m_parent[events[2].data[1]] = events[1].data[1]
    /\ m_cur = DOC

-----------------------------------------------------------------------------
(* basic_node_list::clear followed call by call: which nodes are deleted,  *)
(* in which order, and how many calls of clear() are active at once.       *)

RECURSIVE clear_traced(_, _, _)
RECURSIVE delete_traced(_, _, _)
RECURSIVE delete_all_traced(_, _, _)

\* What a call has done so far: the store, the nodes deleted in order, and
\* the largest number of calls of clear() that were active at the same time
Trace(s, deleted, nesting) == [s |-> s, deleted |-> deleted, nesting |-> nesting]

\* A call of clear() at depth d is entered
Entered(r, d) == Trace(r.s, r.deleted, IF d > r.nesting THEN d ELSE r.nesting)

\* clear() without the stack: each node of the list is deleted, and the
\* destructor of a child element clears the list of that element
clear_by_recursion(r, stack, d) ==
    LET nl == Head(stack)
        done == delete_all_traced(Entered(r, d), ListSeq(r.s, nl), d)
    IN Trace(init(done.s, nl), done.deleted, done.nesting)
\* basic_node_list::clear(), the call at depth d with the given stack of lists
clear_traced(r, stack, d) ==
    IF stack = <<>> THEN Entered(r, d)
    ELSE LET nl == Head(stack)
             kids == ListSeq(r.s, nl)
             cand == {i \in 1..Len(kids) :
                        r.s.type[kids[i]] = "element" /\ ~empty(r.s, kids[i])}
         IN IF cand # {}
            THEN LET i == CHOOSE j \in cand : \A k \in cand : j <= k
                 IN clear_traced(r, <<Hdr(kids[i])>> \o stack, d)
            ELSE LET done == delete_all_traced(Entered(r, d), kids, d)
                 IN clear_traced(Trace(init(done.s, nl), done.deleted, done.nesting),
                                 Tail(stack), d)

\* delete n inside a call of clear() at depth d: ~element runs
\* ~attribute_set and ~element_container, which call clear()
delete_traced(r, n, d) ==
    LET cleared(a) == clear_traced(a, <<Hdr(n)>>, d + 1)
        freed(b) == Trace(Free(b.s, n), Append(b.deleted, n), b.nesting)
    IN IF r.s.type[n] = "element"
       THEN freed(cleared(clear_traced(r, <<AHdr(n)>>, d + 1)))
       ELSE freed(r)

delete_all_traced(r, seq, d) ==
    IF seq = <<>> THEN r
    ELSE delete_all_traced(delete_traced(r, Head(seq), d), Tail(seq), d)

RECURSIVE Below(_, _, _)
\* The nodes below container c: its children, and the attributes and the
\* children of the elements among them, to any depth
Below(s, h, fuel) ==
    IF fuel = 0 THEN {}
    ELSE LET kids == Range(ListSeq(s, h))
         IN kids \cup UNION {Below(s, Hdr(k), fuel - 1) \cup Below(s, AHdr(k), fuel - 1) :
                               k \in {x \in kids : s.type[x] = "element"}}

RECURSIVE Depth(_, _)
\* The depth of the tree below the list h: 0 for an empty list
Depth(s, h) ==
    LET kids == Range(ListSeq(s, h))
        deeper == {Depth(s, Hdr(k)) : k \in {x \in kids : s.type[x] = "element"}}
    IN IF kids = {} THEN 0
       ELSE IF deeper = {} THEN 1
       ELSE 1 + CHOOSE m \in deeper : \A o \in deeper : m >= o

\* c.clear(), and ~document and ~element_container, which are this call
ClearTraced(c) ==
    /\ returned = <<>>
    /\ c \in Containers(Store)
    /\ LET r == clear_traced(Trace(Store, <<>>, 0), <<Hdr(c)>>, 1)
       IN /\ type' = r.s.type
          /\ tag' = r.s.tag
          /\ m_parent' = r.s.parent
          /\ m_next' = r.s.next
          /\ m_prev' = r.s.prev
          /\ exc' = NoException
          /\ returned' = <<[c |-> c, before |-> Store, deleted |-> r.deleted,
                            nesting |-> r.nesting]>>
    /\ UNCHANGED <<ea, eb, ctxt, path, m_path, chain, validatorVars, builderVars>>

ClearNext ==
    \/ \E c \in Obj, t \in Tags : returned = <<>> /\ Emplace(c, Hdr(c), "element", t)
    \/ \E c \in Obj : returned = <<>> /\ Emplace(c, Hdr(c), "text", 0)
    \/ \E e \in Pool, t \in Tags : returned = <<>> /\ SetAttribute(e, t)
    \/ \E c \in Obj : ClearTraced(c)

SpecClear == DomInit /\ [][ClearNext]_vars

\* C27: clear() on a container, which is also what the destructors of an
\* element and of a document run, ends for every finite tree, destroys every
\* node below the container exactly once, leaves the container without
\* children and its header linked to itself, and never has more than two
\* calls of clear() active at once, however deep the tree is.
C27_ClearDestroysOnceInBoundedDepth ==
    returned # <<>> =>
       LET o == returned[1]
           below == Below(o.before, Hdr(o.c), MaxNodes + 1)
       IN /\ NoDuplicates(o.deleted)
          /\ Range(o.deleted) = below
          /\ \A n \in below : type[n] = "free"
          /\ m_next[Hdr(o.c)] = Hdr(o.c) /\ m_prev[Hdr(o.c)] = Hdr(o.c)
          /\ ListSeq(Store, Hdr(o.c)) = <<>>
          /\ \A n \in Addr \ (below \cup {Hdr(o.c)}) :
                /\ type[n] = o.before.type[n]
                /\ n \notin Headers \/ m_parent[n] \notin below
                      => m_next[n] = o.before.next[n] /\ m_prev[n] = o.before.prev[n]
          /\ o.nesting <= 2
          /\ Store = clear(o.before, Hdr(o.c))

\* The document held a chain of three elements, one inside the other, and
\* was cleared
C27_Witness ==
    /\ returned # <<>>
    /\ returned[1].c = DOC
    /\ Depth(returned[1].before, Hdr(DOC)) = 3
    /\ Len(returned[1].deleted) = 3

-----------------------------------------------------------------------------
(* state_base::reset compared with a state that was just created *)

\* m_state->reset() after the names fed so far, which are kept in returned;
\* the names fed from now on are collected in fed again
Reset ==
    /\ returned = <<>>
    /\ m_state' = reset(m_state)
    /\ returned' = <<fed>>
    /\ fed' = <<>>
    /\ accepted' = TRUE
    /\ UNCHANGED <<content, m_done, ea, eb, ctxt, path, m_path, chain, domVars, builderVars>>

ResetNext ==
    \/ \E name \in Names : Allow(name)
    \/ Reset

SpecReset == ValidatorInit /\ [][ResetNext]_vars

RECURSIVE Run(_, _)
\* The outcome of the last of the calls st.allow(w[1]), ..., st.allow(w[n])
\* and the state they leave
Run(st, w) ==
    IF w = <<>> THEN Tuple(TRUE, FALSE, st)
    ELSE allow(Run(st, SubSeq(w, 1, Len(w) - 1)).st, w[Len(w)])

RECURSIVE Observable(_)
\* The state without what allow() cannot read: m_next of a sequence and
\* m_sub of a choice are assigned in state Start before they are used
Observable(st) ==
    CASE st.k = "element" -> st
      [] st.k \in Repetitions -> [st EXCEPT !.m_sub = Observable(st.m_sub)]
      [] st.k = "seq" ->
            [st EXCEPT !.m_next = IF st.m_state = 0 THEN 0 ELSE @,
                       !.m_states = [i \in 1..Len(st.m_states) |-> Observable(st.m_states[i])]]
      [] st.k = "choice" ->
            [st EXCEPT !.m_sub = IF st.m_state = 0 THEN 0 ELSE @,
                       !.m_states = [i \in 1..Len(st.m_states) |-> Observable(st.m_states[i])]]

\* The call st.allow(name) gives the same answer and leaves the same
\* condition whether or not st holds values that allow() cannot read
SameAnswer(st, name) ==
    LET r1 == allow(st, name)
        r2 == allow(Observable(st), name)
    IN /\ r1.result = r2.result
       /\ r1.done = r2.done
       /\ Observable(r1.st) = Observable(r2.st)

\* C29: after reset() a state of any kind, whatever names were fed to it
\* before, answers every further sequence of allow() calls as a state just
\* created for the same content spec does: it differs from that state only
\* in values that no call of allow() reads, and each answer and the
\* condition it leaves are the same.
C29_ResetIsFresh ==
    returned # <<>> =>
       LET fresh == Run(create_state(content), fed)
       IN /\ fed # <<>> => (accepted = fresh.result /\ m_done = fresh.done)
          /\ Observable(m_state) = Observable(fresh.st)
          /\ accepted => \A name \in Names : SameAnswer(m_state, name)

\* A repeated sequence was fed two names, then reset and fed two names again,
\* which it accepted
C29_Witness ==
    /\ returned # <<>>
    /\ Len(returned[1]) = 2
    /\ content.k = "*" /\ content.m_allowed.k = "seq"
    /\ Len(fed) = 2 /\ accepted

-----------------------------------------------------------------------------
(* prefix_for_namespace against namespace_for_prefix *)

\* chain[1] holds the attributes of an element e, chain[i + 1] those of the
\* parent of the element of chain[i]; the last element is a root.  The
\* attributes declare the default namespace and the prefixes p and q.
LookupInit ==
    /\ NoDom
    /\ NoXPath
    /\ NoBuilder
    /\ ea = <<>>
    /\ eb = <<>>
    /\ returned = <<>>
    /\ chain \in [1..MaxChain ->
                    AttributeLists({Declaration(<<>>)} \cup {Declaration(p) : p \in Prefixes},
                                   URIs, MaxAttrs)]

\* e.prefix_for_namespace(uri), then e.namespace_for_prefix of the prefix
\* returned
Lookup(uri) ==
    /\ returned = <<>>
    /\ LET p == prefix_for_namespace(chain, uri)
       IN returned' = <<[uri |-> uri, first |-> p.first, second |-> p.second,
                         namespace |-> namespace_for_prefix(chain, p.first)]>>
    /\ UNCHANGED <<ea, eb, chain, ctxt, path, m_path, domVars, validatorVars, builderVars>>

LookupNext == \E uri \in URIs : Lookup(uri)

SpecLookup == LookupInit /\ [][LookupNext]_vars

\* C30: if e.prefix_for_namespace(uri) returns (p, found = true) for a
\* non-empty uri, then e.namespace_for_prefix(p) is uri, also when an element
\* nearer to e declares the same prefix for another URI.
C30_PrefixResolvesToNamespace ==
    returned # <<>> =>
       (returned[1].second => returned[1].namespace = returned[1].uri)

====
